---- MODULE Spec2Model ----
(***************************************************************************)
(* Signal lifecycle of DollyBot: the scanner inserts validated trade       *)
(* proposals as pending signals, and the evaluation engine advances them   *)
(* pending -> triggered -> win/loss/timeout (or pending -> expired) from    *)
(* the candles the market-data API returns.                                *)
(*                                                                         *)
(* Prices are integer ticks.  Timestamps are integers: the k-th candle of   *)
(* the market carries time 2k, and the wall clock between candle k and     *)
(* candle k+1 reads 2k or 2k+1, so that a signal can be created exactly at  *)
(* a candle's timestamp or strictly between two candles.  An R-multiple is  *)
(* the exact fraction [num, den]; the stored rr is in hundredths           *)
(* (Math.round(r * 100) / 100 keeps two decimals).  A nullable column is a  *)
(* sequence of length 0 (NULL) or 1.                                       *)
(***************************************************************************)
EXTENDS Integers, Sequences, FiniteSets, TLC

VARIABLES
    db,            \* signals table: sequence of rows, row i has id i
    market,        \* every candle the market has produced, oldest first
    cycles,        \* evaluate() invocations in flight: pc and remaining signals
    sent,          \* Telegram messages delivered: set of <<id, event>>
    event,         \* the step taken last: operation, and the signal it handled
    outcomeWrites, \* per signal id: number of updates that wrote outcome
    calc,          \* outcome calculator: the call's arguments and its results
    scheduler,     \* scanner scheduler: intervalId set, isRunning
    scans,         \* scannerFn invocations in progress: position of each
    clock,         \* CURRENT_TIMESTAMP of the database, in seconds
    fetch,         \* a fetchCandles call: attempt, API response, result, its use
    decision,      \* a decision API response and how its scan unit ended
    trial,         \* one loop over units of work, run with and without an error
    limiter,       \* the scanner's rate limiter, the time and the requests made
    prefilter,     \* an indicator or prefilter call: its input and its result
    live           \* one signal followed forever: thresholds, row, latest candles

\* The engine's state, and the state of the components modelled on their own.
engine == <<db, market, cycles, sent, event, outcomeWrites>>
units == <<calc, scheduler, scans, clock, fetch, decision, trial, limiter, prefilter, live>>
vars == <<engine, units>>

\* ---------------------------------------------------------------- bounds
MaxPrice == 5
MaxBars == 4
\* fetchCandles rejects a response of fewer than 50 candles and the pending
\* check requests 50, the triggered check 150; the windows are scaled down.
MinCandles == 2
PendingCount == 2
TriggeredCount == 3
\* config.evaluation thresholds (environment-configurable positive integers)
expirationCandles == 1
timeoutCandles == 2

Prices == 1..MaxPrice
\* The signal ids the table gets to hold, and the evaluate() invocations that
\* can be in flight together.
SignalIds == {1}
Cycles == {1, 2}

None == <<>>
Some(x) == <<x>>

Min(a, b) == IF a < b THEN a ELSE b
Max(a, b) == IF a > b THEN a ELSE b
Abs(x) == IF x < 0 THEN -x ELSE x

\* ---------------------------------------------------------------- candles
\* A candle that passes validateCandles: positive prices, high the highest,
\* low the lowest.
ValidCandle(c) ==
    /\ c.open > 0 /\ c.high > 0 /\ c.low > 0 /\ c.close > 0
    /\ c.high >= c.low
    /\ c.high >= c.open /\ c.high >= c.close
    /\ c.low <= c.open /\ c.low <= c.close

\* The shapes of candle the market produces in the model (time is added on
\* arrival): every low <= high range, opening at its low and closing at its high.
CandleShapes ==
    { s \in [open : Prices, high : Prices, low : Prices, close : Prices] :
        /\ ValidCandle(s)
        /\ s.open = s.low
        /\ s.close = s.high }

WithTime(s, t) ==
    [time |-> t, open |-> s.open, high |-> s.high, low |-> s.low, close |-> s.close]

\* The quiet candle that fills the history before the first signal.
QuietCandle == [open |-> 3, high |-> 3, low |-> 3, close |-> 3]

\* fetchCandles(symbol, timeframe, count): the latest `count` candles, oldest
\* first; fails when fewer than MinCandles come back.
FetchOk(count) == Min(count, Len(market)) >= MinCandles

FetchCandles(count) ==
    SubSeq(market, Len(market) - Min(count, Len(market)) + 1, Len(market))

\* Wall clock readings possible now.
Now == {2 * Len(market), 2 * Len(market) + 1}

\* ---------------------------------------------------------------- proposals
\* validateTradeResponse without the two checks of the take-profits' order.
ValidateTradeResponseUnordered(r) ==
    /\ r.entry > 0
    /\ r.stop_loss > 0
    /\ (r.direction = "long" => r.entry > r.stop_loss)
    /\ (r.direction = "short" => r.entry < r.stop_loss)
    /\ Len(r.take_profits) # 0
    /\ Len(r.take_profits) <= 3
    /\ \A i \in 1..Len(r.take_profits) : r.take_profits[i] > 0
    /\ (r.direction = "long" =>
          \A i \in 1..Len(r.take_profits) : r.take_profits[i] > r.entry)
    /\ (r.direction = "short" =>
          \A i \in 1..Len(r.take_profits) : r.take_profits[i] < r.entry)

\* validateTradeResponse for direction long/short: the entry / stop-loss /
\* take-profit checks (prices of the model are positive numbers already).
ValidateTradeResponse(r) ==
    /\ r.entry > 0
    /\ r.stop_loss > 0
    /\ (r.direction = "long" => r.entry > r.stop_loss)
    /\ (r.direction = "short" => r.entry < r.stop_loss)
    /\ Len(r.take_profits) # 0
    /\ Len(r.take_profits) <= 3
    /\ \A i \in 1..Len(r.take_profits) : r.take_profits[i] > 0
    /\ (r.direction = "long" =>
          /\ \A i \in 1..Len(r.take_profits) : r.take_profits[i] > r.entry
          /\ \A i \in 2..Len(r.take_profits) :
                r.take_profits[i] > r.take_profits[i - 1])
    /\ (r.direction = "short" =>
          /\ \A i \in 1..Len(r.take_profits) : r.take_profits[i] < r.entry
          /\ \A i \in 2..Len(r.take_profits) :
                r.take_profits[i] < r.take_profits[i - 1])

\* What the decision collaborator may answer with: entries at the price of
\* the quiet candle, any stop-loss, one to three take-profits.
EntryPrices == {QuietCandle.close}
Responses ==
    [direction : {"long", "short"}, entry : EntryPrices, stop_loss : Prices,
     take_profits : UNION {[1..n -> Prices] : n \in 1..3}]

\* analyzeSetup returns a response only after validateAndThrow accepted it.
Proposals == {r \in Responses : ValidateTradeResponse(r)}

\* ---------------------------------------------------------------- calculator
TpName == <<"tp1", "tp2", "tp3">>
IsTp(hitType) == hitType \in {"tp1", "tp2", "tp3"}

\* calculateRMultiple taking the long formula for either direction.
CalculateRMultipleLongOnly(signal, hitPrice, hitType) ==
    LET R == Abs(signal.entry - signal.stop_loss) IN
    IF R = 0 THEN [num |-> 0, den |-> 1]
    ELSE IF hitType = "sl" THEN [num |-> -1, den |-> 1]
    ELSE IF hitType = "timeout" THEN [num |-> 0, den |-> 1]
    ELSE IF IsTp(hitType) THEN [num |-> hitPrice - signal.entry, den |-> R]
    ELSE [num |-> 0, den |-> 1]

\* calculateRMultiple without its stop-loss branch: an sl hit falls through to
\* the unknown-hit-type return.
CalculateRMultipleNoSl(signal, hitPrice, hitType) ==
    LET R == Abs(signal.entry - signal.stop_loss) IN
    IF R = 0 THEN [num |-> 0, den |-> 1]
    ELSE IF hitType = "timeout" THEN [num |-> 0, den |-> 1]
    ELSE IF IsTp(hitType) /\ signal.direction = "long"
         THEN [num |-> hitPrice - signal.entry, den |-> R]
    ELSE IF IsTp(hitType) /\ signal.direction = "short"
         THEN [num |-> signal.entry - hitPrice, den |-> R]
    ELSE [num |-> 0, den |-> 1]

\* calculateRMultiple: the R-multiple as the exact fraction num/den.
CalculateRMultiple(signal, hitPrice, hitType) ==
    LET R == Abs(signal.entry - signal.stop_loss) IN
    IF R = 0 THEN [num |-> 0, den |-> 1]
    ELSE IF hitType = "sl" THEN [num |-> -1, den |-> 1]
    ELSE IF hitType = "timeout" THEN [num |-> 0, den |-> 1]
    ELSE IF IsTp(hitType) /\ signal.direction = "long"
         THEN [num |-> hitPrice - signal.entry, den |-> R]
    ELSE IF IsTp(hitType) /\ signal.direction = "short"
         THEN [num |-> signal.entry - hitPrice, den |-> R]
    ELSE [num |-> 0, den |-> 1]

\* determineOutcome
DetermineOutcome(hitType, rMultiple) ==
    IF hitType = "timeout" THEN "timeout"
    ELSE IF hitType = "sl" THEN "loss"
    ELSE IF IsTp(hitType)
         THEN IF rMultiple.num > 0 THEN "win"
              ELSE IF rMultiple.num = 0 THEN "breakeven"
              ELSE "loss"
    ELSE "timeout"

\* Math.round(x) for x = num/den, den > 0: floor(x + 1/2).
MathRound(num, den) == (2 * num + den) \div (2 * den)

\* createOutcomeDetail; rr holds Math.round(rMultiple * 100), i.e. the stored
\* two-decimal value in hundredths.
CreateOutcomeDetail(hitType, rMultiple, hitPrice, hitTime) ==
    [hit |-> hitType,
     rr |-> MathRound(rMultiple.num * 100, rMultiple.den),
     hitPrice |-> hitPrice,
     hitTime |-> hitTime]

\* ---------------------------------------------------------------- database
\* insertSignal: a new row with the next AUTOINCREMENT id, status pending,
\* created_at the current timestamp, every nullable column NULL.
NewRow(d, p, t) ==
    [id |-> Len(d) + 1,
     direction |-> p.direction,
     entry |-> p.entry,
     stop_loss |-> p.stop_loss,
     take_profits |-> p.take_profits,
     status |-> "pending",
     created_at |-> t,
     triggered_at |-> None,
     closed_at |-> None,
     outcome |-> None,
     outcome_detail |-> None]

\* The additionalFields argument of updateSignalStatus.
NoFields ==
    [triggered_at |-> None, closed_at |-> None, outcome |-> None,
     outcome_detail |-> None]

\* updateSignalStatus that also moves the entry to the recorded hit price.
UpdateSignalStatusAndEntry(d, id, status, f) ==
    IF id \notin DOMAIN d THEN d
    ELSE [d EXCEPT ![id] =
            [@ EXCEPT
               !.status = status,
               !.entry = IF f.outcome_detail # None
                         THEN f.outcome_detail[1].hitPrice ELSE @,
               !.triggered_at = IF f.triggered_at # None THEN f.triggered_at ELSE @,
               !.closed_at = IF f.closed_at # None THEN f.closed_at ELSE @,
               !.outcome = IF f.outcome # None THEN f.outcome ELSE @,
               !.outcome_detail =
                   IF f.outcome_detail # None THEN f.outcome_detail ELSE @]]

\* updateSignalStatus: UPDATE signals SET status = ..., <each field that was
\* passed> WHERE id = ...; no condition on the stored status.
UpdateSignalStatus(d, id, status, f) ==
    IF id \notin DOMAIN d THEN d
    ELSE [d EXCEPT ![id] =
            [@ EXCEPT
               !.status = status,
               !.triggered_at = IF f.triggered_at # None THEN f.triggered_at ELSE @,
               !.closed_at = IF f.closed_at # None THEN f.closed_at ELSE @,
               !.outcome = IF f.outcome # None THEN f.outcome ELSE @,
               !.outcome_detail =
                   IF f.outcome_detail # None THEN f.outcome_detail ELSE @]]

\* getSignalsByStatus: the rows with the status, ORDER BY created_at DESC.
RECURSIVE OrderByCreatedDesc(_, _)
OrderByCreatedDesc(d, ids) ==
    IF ids = {} THEN <<>>
    ELSE LET first == CHOOSE i \in ids :
                 \A j \in ids :
                     \/ d[i].created_at > d[j].created_at
                     \/ (d[i].created_at = d[j].created_at /\ i <= j)
         IN <<d[first]>> \o OrderByCreatedDesc(d, ids \ {first})

GetSignalsByStatus(d, status) ==
    OrderByCreatedDesc(d, {i \in DOMAIN d : d[i].status = status})

\* ---------------------------------------------------------------- checker
\* new Date(x) of a nullable timestamp column (NULL reads as the epoch).
TimeOf(opt) == IF opt = None THEN 0 ELSE opt[1]

\* checkPendingSignal: candles.filter(c => time >= created_at)
CandlesAfterCreation(candles, created_at) ==
    LET keep(c) == c.time >= created_at IN SelectSeq(candles, keep)

\* checkPendingSignal: candle.low <= entry && entry <= candle.high
EntryHit(signal, candle) ==
    candle.low <= signal.entry /\ signal.entry <= candle.high

\* findLast instead of find: index of the last candle with the entry inside.
RECURSIVE FindLastEntry(_, _, _)
FindLastEntry(signal, cs, i) ==
    IF i > Len(cs) THEN 0
    ELSE LET later == FindLastEntry(signal, cs, i + 1) IN
         IF later # 0 THEN later
         ELSE IF EntryHit(signal, cs[i]) THEN i ELSE 0

\* candlesAfterCreation.find(...): index of the first candle with the entry
\* inside, 0 when there is none.
RECURSIVE FindEntry(_, _, _)
FindEntry(signal, cs, i) ==
    IF i > Len(cs) THEN 0
    ELSE IF EntryHit(signal, cs[i]) THEN i
    ELSE FindEntry(signal, cs, i + 1)

\* The expiry count with >= in place of >.
CandlesFromCreation(candles, created_at) ==
    LET keep(c) == c.time >= created_at IN Len(SelectSeq(candles, keep))

\* checkPendingSignal: candles.filter(c => time > created_at).length
CandlesSinceCreation(candles, created_at) ==
    LET keep(c) == c.time > created_at IN Len(SelectSeq(candles, keep))

NoEffect == [update |-> None, notify |-> None]

\* checkPendingSignal after the fetch: the update it issues and the
\* notification it sends, expiration being
\* config.evaluation.expirationCandles.
PendingEffectWith(signal, candles, now, expiration) ==
    LET after == CandlesAfterCreation(candles, signal.created_at)
        k == FindEntry(signal, after, 1)
    IN  IF Len(after) = 0 THEN NoEffect
        ELSE IF k # 0
        THEN [update |-> Some([status |-> "triggered",
                               fields |-> [NoFields EXCEPT
                                   !.triggered_at = Some(after[k].time)]]),
              notify |-> Some("triggered")]
        ELSE IF CandlesSinceCreation(candles, signal.created_at) >= expiration
        THEN [update |-> Some([status |-> "expired",
                               fields |-> [NoFields EXCEPT !.closed_at = Some(now)]]),
              notify |-> Some("expired")]
        ELSE NoEffect

\* checkPendingSignal under the configured expirationCandles.
PendingEffect(signal, candles, now) ==
    PendingEffectWith(signal, candles, now, expirationCandles)

\* The post-trigger filter with >= in place of >.
CandlesFromTrigger(candles, triggered_at) ==
    LET keep(c) == c.time >= TimeOf(triggered_at) IN SelectSeq(candles, keep)

\* checkTriggeredSignal: candles.filter(c => time > triggered_at)
CandlesAfterTrigger(candles, triggered_at) ==
    LET keep(c) == c.time > TimeOf(triggered_at) IN SelectSeq(candles, keep)

\* checkTriggeredSignal: slHit
SlHit(signal, candle) ==
    IF signal.direction = "long"
    THEN candle.low <= signal.stop_loss
    ELSE candle.high >= signal.stop_loss

\* checkTriggeredSignal: tpHit
TpHit(signal, candle, tp) ==
    IF signal.direction = "long" THEN candle.high >= tp ELSE candle.low <= tp

\* The take-profit loop run from the farthest target down.
RECURSIVE LastTpHit(_, _, _)
LastTpHit(signal, candle, i) ==
    IF i > Len(signal.take_profits) THEN 0
    ELSE LET later == LastTpHit(signal, candle, i + 1) IN
         IF later # 0 THEN later
         ELSE IF TpHit(signal, candle, signal.take_profits[i]) THEN i ELSE 0

\* The take-profit loop: first index i with tpHit, 0 when none.
RECURSIVE FirstTpHit(_, _, _)
FirstTpHit(signal, candle, i) ==
    IF i > Len(signal.take_profits) THEN 0
    ELSE IF TpHit(signal, candle, signal.take_profits[i]) THEN i
    ELSE FirstTpHit(signal, candle, i + 1)

\* The update issued for a hit of hitType at hitPrice on a candle.
CloseUpdate(signal, hitType, hitPrice, hitTime) ==
    LET rMultiple == CalculateRMultiple(signal, hitPrice, hitType)
        outcome == DetermineOutcome(hitType, rMultiple)
        outcome_detail == CreateOutcomeDetail(hitType, rMultiple, hitPrice, hitTime)
    IN  [status |-> outcome,
         fields |-> [NoFields EXCEPT
                       !.closed_at = Some(hitTime),
                       !.outcome = Some(outcome),
                       !.outcome_detail = Some(outcome_detail)]]

\* The candle loop with the take-profits checked before the stop-loss.
RECURSIVE ScanCandlesTpFirst(_, _, _)
ScanCandlesTpFirst(signal, cs, i) ==
    IF i > Len(cs) THEN None
    ELSE LET k == FirstTpHit(signal, cs[i], 1) IN
         IF k # 0
         THEN Some(CloseUpdate(signal, TpName[k], signal.take_profits[k], cs[i].time))
         ELSE IF SlHit(signal, cs[i])
         THEN Some(CloseUpdate(signal, "sl", signal.stop_loss, cs[i].time))
         ELSE ScanCandlesTpFirst(signal, cs, i + 1)

\* The candle loop of checkTriggeredSignal from index i: the update of the
\* first candle on which the stop-loss (checked first) or a take-profit fires.
RECURSIVE ScanCandles(_, _, _)
ScanCandles(signal, cs, i) ==
    IF i > Len(cs) THEN None
    ELSE IF SlHit(signal, cs[i])
    THEN Some(CloseUpdate(signal, "sl", signal.stop_loss, cs[i].time))
    ELSE LET k == FirstTpHit(signal, cs[i], 1) IN
         IF k # 0
         THEN Some(CloseUpdate(signal, TpName[k], signal.take_profits[k], cs[i].time))
         ELSE ScanCandles(signal, cs, i + 1)

\* The timeout branch with the multiple derived from the last close.
TimeoutUpdatePriced(signal, after) ==
    LET lastCandle == after[Len(after)]
        rMultiple == CalculateRMultiple(signal, lastCandle.close, "tp1")
        outcome_detail ==
            CreateOutcomeDetail("timeout", rMultiple, lastCandle.close, lastCandle.time)
    IN  [status |-> "timeout",
         fields |-> [NoFields EXCEPT
                       !.closed_at = Some(lastCandle.time),
                       !.outcome = Some("timeout"),
                       !.outcome_detail = Some(outcome_detail)]]

\* The timeout branch of checkTriggeredSignal.
TimeoutUpdate(signal, after) ==
    LET lastCandle == after[Len(after)]
        rMultiple == CalculateRMultiple(signal, lastCandle.close, "timeout")
        outcome_detail ==
            CreateOutcomeDetail("timeout", rMultiple, lastCandle.close, lastCandle.time)
    IN  [status |-> "timeout",
         fields |-> [NoFields EXCEPT
                       !.closed_at = Some(lastCandle.time),
                       !.outcome = Some("timeout"),
                       !.outcome_detail = Some(outcome_detail)]]

\* checkTriggeredSignal timing out one candle early.
TriggeredEffectEarlyTimeout(signal, candles) ==
    LET after == CandlesAfterTrigger(candles, signal.triggered_at)
        hit == ScanCandles(signal, after, 1)
    IN  IF Len(after) = 0 THEN NoEffect
        ELSE IF hit # None
        THEN [update |-> hit, notify |-> Some("outcome")]
        ELSE IF Len(after) >= timeoutCandles - 1
        THEN [update |-> Some(TimeoutUpdate(signal, after)),
              notify |-> Some("outcome")]
        ELSE NoEffect

\* checkTriggeredSignal after the fetch, timeout being
\* config.evaluation.timeoutCandles.
TriggeredEffectWith(signal, candles, timeout) ==
    LET after == CandlesAfterTrigger(candles, signal.triggered_at)
        hit == ScanCandles(signal, after, 1)
    IN  IF Len(after) = 0 THEN NoEffect
        ELSE IF hit # None
        THEN [update |-> hit, notify |-> Some("outcome")]
        ELSE IF Len(after) >= timeout
        THEN [update |-> Some(TimeoutUpdate(signal, after)),
              notify |-> Some("outcome")]
        ELSE NoEffect

\* checkTriggeredSignal under the configured timeoutCandles.
TriggeredEffect(signal, candles) == TriggeredEffectWith(signal, candles, timeoutCandles)

\* ---------------------------------------------------------------- evaluation
Idle == [pc |-> "idle", queue |-> <<>>]

\* evaluate(), second half: getTriggeredSignals() and the loop over them.
TriggeredPhase(d) ==
    LET q == GetSignalsByStatus(d, "triggered") IN
    IF q = <<>> THEN Idle ELSE [pc |-> "triggered", queue |-> q]

\* Where a cycle stands after one pending signal was handled: the loop goes
\* on, or it is over and the triggered signals are read, at once when the
\* handler returned without awaiting a notification.
AfterPending(d, rest, suspended) ==
    IF rest # <<>> THEN [pc |-> "pending", queue |-> rest]
    ELSE IF suspended THEN [pc |-> "readTriggered", queue |-> <<>>]
    ELSE TriggeredPhase(d)

AfterTriggered(rest) ==
    IF rest # <<>> THEN [pc |-> "triggered", queue |-> rest] ELSE Idle

\* The database after the update of an effect, if it has one.
ApplyEffect(d, id, effect) ==
    IF effect.update = None THEN d
    ELSE UpdateSignalStatus(d, id, effect.update[1].status, effect.update[1].fields)

WritesOutcome(effect) ==
    effect.update # None /\ effect.update[1].fields.outcome # None

\* notify*: sendMessageSafe delivers the message or logs the failure.
Notify(id, effect, delivered) ==
    IF effect.notify # None /\ delivered
    THEN sent \cup {<<id, effect.notify[1]>>}
    ELSE sent

Other(op) == [op |-> op, signal |-> None]
Checked(op, signal) == [op |-> op, signal |-> Some(signal)]

\* The scanner before main() has scheduled it.
ScannerStopped ==
    /\ scheduler = [intervalId |-> FALSE, isRunning |-> FALSE]
    /\ scans = <<>>
    /\ clock = 1

\* No fetchCandles call, decision, loop or rate limiter being followed on its
\* own.
NoFetch == fetch = None
NoDecision == decision = None
NoTrial == trial = None
NoLimiter == limiter = None
NoPrefilter == prefilter = None
NoLive == live = None

Init ==
    /\ db = <<>>
    /\ market = [k \in 1..MinCandles |-> WithTime(QuietCandle, 2 * k)]
    /\ cycles = [c \in Cycles |-> Idle]
    /\ sent = {}
    /\ event = Other("init")
    /\ outcomeWrites = <<>>
    /\ calc = None
    /\ ScannerStopped
    /\ NoFetch
    /\ NoDecision
    /\ NoTrial
    /\ NoLimiter
    /\ NoPrefilter
    /\ NoLive

\* The market closes one more candle.
NewCandle ==
    /\ Len(market) < MaxBars
    /\ \E s \in CandleShapes :
          market' = Append(market, WithTime(s, 2 * (Len(market) + 1)))
    /\ event' = Other("candle")
    /\ UNCHANGED <<db, cycles, sent, outcomeWrites>>
    /\ UNCHANGED units

\* scan(): a validated proposal is inserted as a pending signal.
InsertSignal ==
    /\ Len(db) + 1 \in SignalIds
    /\ \E p \in Proposals, t \in Now :
          db' = Append(db, NewRow(db, p, t))
    /\ outcomeWrites' = Append(outcomeWrites, 0)
    /\ event' = Other("insert")
    /\ UNCHANGED <<market, cycles, sent>>
    /\ UNCHANGED units

\* The interval timer (or startup) calls evaluate(): getPendingSignals(), and
\* with none pending, getTriggeredSignals() right away.
StartEvaluate(c) ==
    /\ cycles[c].pc = "idle"
    /\ \A b \in Cycles : b < c => cycles[b].pc # "idle"
    /\ LET q == GetSignalsByStatus(db, "pending") IN
       cycles' = [cycles EXCEPT ![c] =
                    IF q # <<>> THEN [pc |-> "pending", queue |-> q]
                    ELSE TriggeredPhase(db)]
    /\ event' = Other("evaluate")
    /\ UNCHANGED <<db, market, sent, outcomeWrites>>
    /\ UNCHANGED units

\* checkPendingSignal with the update undone when the notification fails.
CheckPendingSignalRollsBack(c, deliveries) ==
    /\ cycles[c].pc = "pending"
    /\ FetchOk(PendingCount)
    /\ LET signal == Head(cycles[c].queue)
           candles == FetchCandles(PendingCount)
       IN  \E now \in Now, delivered \in deliveries :
             LET effect == PendingEffect(signal, candles, now) IN
             /\ db' = IF effect.notify # None /\ ~delivered THEN db
                      ELSE ApplyEffect(db, signal.id, effect)
             /\ sent' = Notify(signal.id, effect, delivered)
             /\ event' = Checked("checkPendingSignal", signal)
             /\ cycles' = [cycles EXCEPT ![c] =
                   AfterPending(db', Tail(cycles[c].queue), effect.notify # None)]
    /\ UNCHANGED <<market, outcomeWrites>>
    /\ UNCHANGED units

\* checkPendingSignal of the next signal of the cycle's list: the fetch
\* returns and the signal, as read at the start of the cycle, is checked.
CheckPendingSignal(c, deliveries) ==
    /\ cycles[c].pc = "pending"
    /\ FetchOk(PendingCount)
    /\ LET signal == Head(cycles[c].queue)
           candles == FetchCandles(PendingCount)
       IN  \E now \in Now, delivered \in deliveries :
             LET effect == PendingEffect(signal, candles, now) IN
             /\ db' = ApplyEffect(db, signal.id, effect)
             /\ sent' = Notify(signal.id, effect, delivered)
             /\ event' = Checked("checkPendingSignal", signal)
             /\ cycles' = [cycles EXCEPT ![c] =
                   AfterPending(db', Tail(cycles[c].queue), effect.notify # None)]
    /\ UNCHANGED <<market, outcomeWrites>>
    /\ UNCHANGED units

\* fetchCandles throws; checkPendingSignals logs it and goes on.
PendingFetchFailed(c) ==
    /\ cycles[c].pc = "pending"
    /\ cycles' = [cycles EXCEPT ![c] = AfterPending(db, Tail(cycles[c].queue), FALSE)]
    /\ event' = Other("fetchFailed")
    /\ UNCHANGED <<db, market, sent, outcomeWrites>>
    /\ UNCHANGED units

\* evaluate() resumes after the pending loop and reads the triggered signals.
ReadTriggered(c) ==
    /\ cycles[c].pc = "readTriggered"
    /\ cycles' = [cycles EXCEPT ![c] = TriggeredPhase(db)]
    /\ event' = Other("readTriggered")
    /\ UNCHANGED <<db, market, sent, outcomeWrites>>
    /\ UNCHANGED units

\* checkTriggeredSignal of the next signal of the cycle's list.
CheckTriggeredSignal(c, deliveries) ==
    /\ cycles[c].pc = "triggered"
    /\ FetchOk(TriggeredCount)
    /\ LET signal == Head(cycles[c].queue)
           candles == FetchCandles(TriggeredCount)
           effect == TriggeredEffect(signal, candles)
       IN  \E delivered \in deliveries :
             /\ db' = ApplyEffect(db, signal.id, effect)
             /\ sent' = Notify(signal.id, effect, delivered)
             /\ event' = Checked("checkTriggeredSignal", signal)
             /\ outcomeWrites' =
                   IF WritesOutcome(effect)
                   THEN [outcomeWrites EXCEPT ![signal.id] = @ + 1]
                   ELSE outcomeWrites
    /\ cycles' = [cycles EXCEPT ![c] = AfterTriggered(Tail(cycles[c].queue))]
    /\ UNCHANGED market
    /\ UNCHANGED units

\* fetchCandles throws; checkTriggeredSignals logs it and goes on.
TriggeredFetchFailed(c) ==
    /\ cycles[c].pc = "triggered"
    /\ cycles' = [cycles EXCEPT ![c] = AfterTriggered(Tail(cycles[c].queue))]
    /\ event' = Other("fetchFailed")
    /\ UNCHANGED <<db, market, sent, outcomeWrites>>
    /\ UNCHANGED units

\* One step of the evaluate() invocation c.
Evaluate(c, deliveries) ==
    \/ StartEvaluate(c)
    \/ CheckPendingSignal(c, deliveries)
    \/ PendingFetchFailed(c)
    \/ ReadTriggered(c)
    \/ CheckTriggeredSignal(c, deliveries)
    \/ TriggeredFetchFailed(c)

\* The evaluation engine as it runs: setInterval starts evaluate() whether or
\* not the previous invocation has returned, so invocations overlap.  Every
\* notification is delivered.
Next ==
    \/ NewCandle
    \/ InsertSignal
    \/ \E c \in Cycles : Evaluate(c, {TRUE})

Spec == Init /\ [][Next]_vars

\* The runs in which every evaluate() returns before the next one starts;
\* a notification is delivered or fails.
NextSequential ==
    \/ NewCandle
    \/ InsertSignal
    \/ Evaluate(1, BOOLEAN)

SpecSequential == Init /\ [][NextSequential]_vars

\* ---------------------------------------------------------------- calculator alone
\* The outcome calculator called on arbitrary arguments: any direction, entry,
\* stop-loss and hit price (a zero risk unit and a target on the wrong side of
\* the entry included) and every hit type.
HitTypes == {"tp1", "tp2", "tp3", "sl", "timeout"}
CalcSignals == [direction : {"long", "short"}, entry : Prices, stop_loss : Prices]
Multiples == {[num |-> n, den |-> 1] : n \in -1..1}

EngineUnused ==
    /\ db = <<>>
    /\ market = <<>>
    /\ cycles = [c \in Cycles |-> Idle]
    /\ sent = {}
    /\ event = Other("init")
    /\ outcomeWrites = <<>>

InitCalculator ==
    /\ EngineUnused
    /\ calc \in [signal : CalcSignals, hitPrice : Prices, hitType : HitTypes,
                 rMultiple : {None}, outcome : {None}]
    /\ ScannerStopped
    /\ NoFetch
    /\ NoDecision
    /\ NoTrial
    /\ NoLimiter
    /\ NoPrefilter
    /\ NoLive

\* const rMultiple = calculateRMultiple(signal, hitPrice, hitType)
CalculateStep ==
    /\ calc.rMultiple = None
    /\ calc' = [calc EXCEPT !.rMultiple =
                  Some(CalculateRMultiple(calc.signal, calc.hitPrice, calc.hitType))]
    /\ UNCHANGED <<engine, scheduler, scans, clock, fetch, decision, trial, limiter, prefilter, live>>

\* const outcome = determineOutcome(hitType, rMultiple), on the multiple just
\* calculated or on any other one.
DetermineStep ==
    /\ calc.outcome = None
    /\ \E m \in Multiples \cup {calc.rMultiple[i] : i \in DOMAIN calc.rMultiple} :
          calc' = [calc EXCEPT !.outcome =
                     Some([multiple |-> m,
                           outcome |-> DetermineOutcome(calc.hitType, m)])]
    /\ UNCHANGED <<engine, scheduler, scans, clock, fetch, decision, trial, limiter, prefilter, live>>

NextCalculator == CalculateStep \/ DetermineStep

SpecCalculator == InitCalculator /\ [][NextCalculator]_vars

\* ---------------------------------------------------------------- scanner
\* config.trading.confidenceThreshold (0.6), confidences being in tenths.
confidenceThreshold == 6

\* config.scanner: the symbol/timeframe combinations of a cycle and the modes.
Combinations ==
    <<[symbol |-> "EURUSD", timeframe |-> "15m"],
      [symbol |-> "GBPUSD", timeframe |-> "15m"]>>
Modes == <<"conservative", "aggressive">>

\* The ids the scanner's table gets to hold and the seconds its clock shows.
ScanIds == 1..2
Clock == 1..2

\* validateTradeResponse: a response with every required field.  null is
\* written 0 (no price is 0) and a confidence is in tenths.
ValidateResponse(r, atrOk) ==
    IF r.direction \notin {"long", "short", "none"} THEN FALSE
    ELSE IF r.direction = "none"
    THEN /\ r.entry = 0
         /\ r.stop_loss = 0
         /\ Len(r.take_profits) = 0
         /\ r.confidence >= 0 /\ r.confidence <= 10
    ELSE /\ ValidateTradeResponse(r)
         /\ atrOk
         /\ r.confidence >= 0 /\ r.confidence <= 10

Returned(x) == [thrown |-> FALSE, value |-> Some(x)]
ReturnedNull == [thrown |-> FALSE, value |-> None]
Thrown == [thrown |-> TRUE, value |-> None]

\* analyzeSetup: throws when the API call or the validation fails, returns
\* null for direction none and the validated trade otherwise.
AnalyzeSetup(r, apiOk, atrOk) ==
    IF ~apiOk THEN Thrown
    ELSE IF ~ValidateResponse(r, atrOk) THEN Thrown
    ELSE IF r.direction = "none" THEN ReturnedNull
    ELSE Returned(r)

\* The row insertSignal writes for a scanned unit.
ScanRow(d, unit, signal, t) ==
    [symbol |-> unit.symbol, timeframe |-> unit.timeframe, mode |-> unit.mode,
     confidence |-> signal.confidence] @@ NewRow(d, signal, t)

\* UNIQUE(symbol, timeframe, mode, created_at)
UniqueViolation(d, row) ==
    \E i \in DOMAIN d :
        /\ d[i].symbol = row.symbol
        /\ d[i].timeframe = row.timeframe
        /\ d[i].mode = row.mode
        /\ d[i].created_at = row.created_at

\* Errors as the handlers see them: the name and the code property.
SqliteError(code) == [name |-> "SqliteError", code |-> code]
DatabaseError == [name |-> "DatabaseError", code |-> "undefined"]

\* stmt.run(...) of the INSERT: the table afterwards and the error raised.
StmtRun(d, row, busy) ==
    IF busy THEN [db |-> d, error |-> Some(SqliteError("SQLITE_BUSY"))]
    ELSE IF UniqueViolation(d, row)
    THEN [db |-> d, error |-> Some(SqliteError("SQLITE_CONSTRAINT_UNIQUE"))]
    ELSE [db |-> Append(d, row), error |-> None]

\* executeWithRetry: a busy database is retried and gives up after the last
\* attempt; every error leaves as a new DatabaseError, whose code property is
\* not set (the original code is kept in details only).
ExecuteWithRetry(run) ==
    IF run.error = None THEN run
    ELSE [run EXCEPT !.error = Some(DatabaseError)]

\* insertSignal: the table afterwards and what the call returns or throws.
InsertSignalResult(d, unit, signal, t, busy) ==
    LET run == ExecuteWithRetry(StmtRun(d, ScanRow(d, unit, signal, t), busy)) IN
    IF run.error = None THEN [db |-> run.db, result |-> Returned(Len(run.db))]
    ELSE IF run.error[1].code = "SQLITE_CONSTRAINT_UNIQUE"
    THEN [db |-> run.db, result |-> ReturnedNull]
    ELSE [db |-> run.db, result |-> Thrown]

\* The inputs of one unit of a scan: what the pre-filter, the decision API,
\* the ATR check, the database and Telegram do.
UnitInputs ==
    [candidate : BOOLEAN, apiOk : BOOLEAN, atrOk : BOOLEAN, busy : BOOLEAN,
     delivered : BOOLEAN]

\* scan(), body of the loop over the modes for one mode of one combination:
\* the table afterwards, how the unit ended and the id it inserted.
ScanUnit(d, unit, r, in, t) ==
    IF ~in.candidate THEN [db |-> d, outcome |-> "notCandidate", id |-> None]
    ELSE LET analysis == AnalyzeSetup(r, in.apiOk, in.atrOk) IN
    IF analysis.thrown THEN [db |-> d, outcome |-> "analysisFailed", id |-> None]
    ELSE IF analysis.value = None THEN [db |-> d, outcome |-> "noTrade", id |-> None]
    ELSE LET signal == analysis.value[1] IN
    IF signal.confidence < confidenceThreshold
    THEN [db |-> d, outcome |-> "rejected", id |-> None]
    ELSE LET insert == InsertSignalResult(d, unit, signal, t, in.busy) IN
    IF insert.result.thrown
    THEN [db |-> insert.db, outcome |-> "insertFailed", id |-> None]
    ELSE IF insert.result.value = None
    THEN [db |-> insert.db, outcome |-> "duplicate", id |-> None]
    ELSE [db |-> insert.db, outcome |-> "inserted", id |-> insert.result.value]

\* What the decision API answers with during a scan: no trade, or the entry
\* of the quiet candle with a stop-loss within a tick of it and one
\* take-profit as far on the other side.
NearPrices == {p \in Prices : \E e \in EntryPrices : Abs(p - e) <= 1}
ScanResponses ==
    {[direction |-> d, entry |-> e, stop_loss |-> sl,
      take_profits |-> <<2 * e - sl>>, confidence |-> c] :
        d \in {"long", "short"}, e \in EntryPrices, sl \in NearPrices, c \in {5, 6}}
    \cup {[direction |-> "none", entry |-> 0, stop_loss |-> 0,
           take_profits |-> <<>>, confidence |-> 5]}

\* The inputs of a unit during a scan, without those that differ only in a
\* collaborator the unit never got to.
ScanInputs ==
    {in \in UnitInputs :
        /\ ~in.candidate => in.apiOk
        /\ ~(in.candidate /\ in.apiOk) => (in.atrOk /\ in.busy /\ in.delivered)}

\* runScan without the isRunning check.
RunScanUnguarded(sch, scs) ==
    [scheduler |-> [sch EXCEPT !.isRunning = TRUE],
     scans |-> Append(scs, [i |-> 1, j |-> 0])]

\* runScan: skip when a scan is running, else mark running and call scannerFn,
\* which starts at the first combination.
RunScan(sch, scs) ==
    IF sch.isRunning THEN [scheduler |-> sch, scans |-> scs]
    ELSE [scheduler |-> [sch EXCEPT !.isRunning = TRUE],
          scans |-> Append(scs, [i |-> 1, j |-> 0])]

NextCombination(scan) == [i |-> scan.i + 1, j |-> 0]
NextMode(scan) ==
    IF scan.j < Len(Modes) THEN [scan EXCEPT !.j = @ + 1]
    ELSE NextCombination(scan)
AfterLoop == [i |-> Len(Combinations) + 1, j |-> 0]
RemoveAt(seq, k) == SubSeq(seq, 1, k - 1) \o SubSeq(seq, k + 1, Len(seq))

\* The scan k goes on from position scan; past the last combination scan()
\* returns and runScan's finally clears isRunning.
Resume(k, scan) ==
    IF scan.i > Len(Combinations)
    THEN /\ scans' = RemoveAt(scans, k)
         /\ scheduler' = [scheduler EXCEPT !.isRunning = FALSE]
    ELSE /\ scans' = [scans EXCEPT ![k] = scan]
         /\ UNCHANGED scheduler

InitScanner ==
    /\ EngineUnused
    /\ calc = None
    /\ ScannerStopped
    /\ NoFetch
    /\ NoDecision
    /\ NoTrial
    /\ NoLimiter
    /\ NoPrefilter
    /\ NoLive

\* scheduleScanner: stops a previous schedule, runs a scan at once and sets
\* the interval timer.
ScheduleScanner ==
    /\ LET run == RunScan(scheduler, scans) IN
       /\ scheduler' = [run.scheduler EXCEPT !.intervalId = TRUE]
       /\ scans' = run.scans
    /\ event' = Other(IF scheduler.isRunning THEN "skipped" ELSE "started")
    /\ UNCHANGED <<db, market, cycles, sent, outcomeWrites, calc, fetch, decision, trial, limiter, prefilter, live, clock>>

\* The interval timer fires.
Tick ==
    /\ scheduler.intervalId
    /\ LET run == RunScan(scheduler, scans) IN
       /\ scheduler' = run.scheduler
       /\ scans' = run.scans
    /\ event' = Other(IF scheduler.isRunning THEN "skipped" ELSE "started")
    /\ UNCHANGED <<db, market, cycles, sent, outcomeWrites, calc, fetch, decision, trial, limiter, prefilter, live, clock>>

\* stopScheduler
StopScheduler ==
    /\ scheduler.intervalId
    /\ scheduler' = [scheduler EXCEPT !.intervalId = FALSE]
    /\ event' = Other("stopped")
    /\ UNCHANGED <<db, market, cycles, sent, outcomeWrites, calc, fetch, decision, trial, limiter, prefilter, live, scans, clock>>

\* A second passes.
ClockTick ==
    /\ clock + 1 \in Clock
    /\ clock' = clock + 1
    /\ event' = Other("second")
    /\ UNCHANGED <<db, market, cycles, sent, outcomeWrites, calc, fetch, decision, trial, limiter, prefilter, live, scheduler, scans>>

\* scan(): the rate limiter allows no call, the loop breaks.
RateLimited(k) ==
    /\ scans[k].j = 0
    /\ Resume(k, AfterLoop)
    /\ event' = Other("rateLimited")
    /\ UNCHANGED <<db, market, cycles, sent, outcomeWrites, calc, fetch, decision, trial, limiter, prefilter, live, clock>>

\* scan(): fetchCandles (or the indicator computation) throws; the catch of
\* the combination logs it and the loop goes on.
ScanFetchFailed(k) ==
    /\ scans[k].j = 0
    /\ Resume(k, NextCombination(scans[k]))
    /\ event' = Other("scanFetchFailed")
    /\ UNCHANGED <<db, market, cycles, sent, outcomeWrites, calc, fetch, decision, trial, limiter, prefilter, live, clock>>

\* scan(): the candles of the combination arrived; the modes come next.
ScanFetched(k) ==
    /\ scans[k].j = 0
    /\ scans' = [scans EXCEPT ![k].j = 1]
    /\ event' = Other("scanFetched")
    /\ UNCHANGED <<db, market, cycles, sent, outcomeWrites, calc, fetch, decision, trial, limiter, prefilter, live, scheduler, clock>>

\* scan(): one mode of the fetched combination.  The event keeps how the unit
\* ended and, for a failed insert, whether the database was busy.
ScanMode(k) ==
    /\ scans[k].j >= 1
    /\ LET c == Combinations[scans[k].i]
           unit == [symbol |-> c.symbol, timeframe |-> c.timeframe,
                    mode |-> Modes[scans[k].j]]
       IN  \E r \in ScanResponses, in \in ScanInputs :
             LET u == ScanUnit(db, unit, r, in, clock) IN
             /\ DOMAIN u.db \subseteq ScanIds
             /\ db' = u.db
             /\ sent' = IF u.outcome = "inserted" /\ in.delivered
                        THEN sent \cup {<<u.id[1], "new">>} ELSE sent
             /\ event' = Checked("scanUnit",
                   [unit |-> unit, outcome |-> u.outcome, id |-> u.id,
                    busy |-> (u.outcome = "insertFailed" /\ in.busy)])
    /\ Resume(k, NextMode(scans[k]))
    /\ UNCHANGED <<market, cycles, outcomeWrites, calc, fetch, decision, trial, limiter, prefilter, live, clock>>

NextScanner ==
    \/ ScheduleScanner
    \/ Tick
    \/ StopScheduler
    \/ ClockTick
    \/ \E k \in DOMAIN scans :
          \/ RateLimited(k)
          \/ ScanFetchFailed(k)
          \/ ScanFetched(k)
          \/ ScanMode(k)

SpecScanner == InitScanner /\ [][NextScanner]_vars

\* ---------------------------------------------------------------- decision
\* One unit of a scan on any answer of the decision API: a direction the
\* validator knows or not, prices present or null (written 0), a stop-loss at
\* most a tick from the entry, zero to four take-profits in any order, a
\* confidence below the threshold, at it, or out of range.
AnyResponses ==
    {r \in [direction : {"long", "short", "none", "hold"},
            entry : 0..MaxPrice, stop_loss : 0..MaxPrice,
            take_profits : UNION {[1..n -> Prices] : n \in 0..4},
            confidence : {confidenceThreshold - 1, confidenceThreshold, 11}] :
        r.stop_loss = 0 \/ Abs(r.stop_loss - r.entry) <= 1}

DecisionUnit ==
    [symbol |-> Combinations[1].symbol, timeframe |-> Combinations[1].timeframe,
     mode |-> Modes[1]]

InitDecision ==
    /\ EngineUnused
    /\ calc = None
    /\ ScannerStopped
    /\ NoFetch
    /\ NoTrial
    /\ NoLimiter
    /\ NoPrefilter
    /\ NoLive
    /\ \E r \in AnyResponses : decision = [response |-> r, outcome |-> None]

\* scan(), body of the loop over the modes, on the answer under analysis.
DecideUnit ==
    /\ decision.outcome = None
    /\ \E in \in ScanInputs :
          LET u == ScanUnit(db, DecisionUnit, decision.response, in, clock) IN
          /\ db' = u.db
          /\ decision' = [decision EXCEPT !.outcome = Some(u.outcome)]
          /\ sent' = IF u.outcome = "inserted" /\ in.delivered
                     THEN sent \cup {<<u.id[1], "new">>} ELSE sent
    /\ UNCHANGED <<market, cycles, event, outcomeWrites, calc, scheduler, scans,
                   clock, fetch, trial, limiter, prefilter, live>>

NextDecision == DecideUnit

SpecDecision == InitDecision /\ [][NextDecision]_vars

\* ---------------------------------------------------------------- market data
\* config.marketData.maxRetries
maxRetries == 3

\* A price as parseFloat delivers it: a number, or NaN (written None).  Every
\* comparison with NaN is false.
NaN == None
Num(x) == Some(x)
IsNaN(a) == a = NaN
Lt(a, b) == ~IsNaN(a) /\ ~IsNaN(b) /\ a[1] < b[1]
LeZero(a) == ~IsNaN(a) /\ a[1] <= 0

RawPrices == {NaN} \cup {Num(x) : x \in 0..2}
RawShapes == [open : RawPrices, high : RawPrices, low : RawPrices, close : RawPrices]

\* A candle of the model's market as the API delivers it, and back.
Raw(c) ==
    [time |-> c.time, open |-> Num(c.open), high |-> Num(c.high),
     low |-> Num(c.low), close |-> Num(c.close)]
Number(c) ==
    [time |-> c.time, open |-> c.open[1], high |-> c.high[1],
     low |-> c.low[1], close |-> c.close[1]]

\* validateCandles that lets an inconsistent high or low through.
ValidateCandlesPricesOnly(candles) ==
    \A i \in DOMAIN candles :
        LET candle == candles[i] IN
        /\ ~(\/ LeZero(candle.open) \/ LeZero(candle.high)
             \/ LeZero(candle.low) \/ LeZero(candle.close))
        /\ ~(\/ IsNaN(candle.open) \/ IsNaN(candle.high)
             \/ IsNaN(candle.low) \/ IsNaN(candle.close))

\* validateCandles: TRUE when no candle makes it throw.
ValidateCandles(candles) ==
    \A i \in DOMAIN candles :
        LET candle == candles[i] IN
        /\ ~(\/ LeZero(candle.open) \/ LeZero(candle.high)
             \/ LeZero(candle.low) \/ LeZero(candle.close))
        /\ ~Lt(candle.high, candle.low)
        /\ ~(Lt(candle.high, candle.open) \/ Lt(candle.high, candle.close))
        /\ ~(Lt(candle.open, candle.low) \/ Lt(candle.close, candle.low))
        /\ ~(\/ IsNaN(candle.open) \/ IsNaN(candle.high)
             \/ IsNaN(candle.low) \/ IsNaN(candle.close))

\* candles.reverse()
Reverse(seq) == [i \in 1..Len(seq) |-> seq[Len(seq) + 1 - i]]

\* One attempt of fetchCandles on the API's answer: the candles it returns,
\* or the error that sends it to the catch.
Attempt(response) ==
    IF response.kind # "ok" THEN Thrown
    ELSE LET candles == Reverse(response.values) IN
         IF Len(candles) < MinCandles THEN Thrown
         ELSE IF ~ValidateCandles(candles) THEN Thrown
         ELSE Returned([i \in DOMAIN candles |-> Number(candles[i])])

\* What the API answers.  Its values are newest first by default; the answers
\* drawn here are: candles of the market in any order of their timestamps;
\* quiet candles, newest first, one of them with arbitrary prices; an HTTP
\* error; a rate-limit error.
FetchTimes == {2, 4, 6}
OrderShapes == {sh \in CandleShapes : sh.low \in {1, 3, 4} /\ sh.high \in {3, 5}}
RawQuiet == [open |-> Num(1), high |-> Num(1), low |-> Num(1), close |-> Num(1)]
RawWithTime(sh, t) ==
    [time |-> t, open |-> sh.open, high |-> sh.high, low |-> sh.low, close |-> sh.close]
FetchLengths == (MinCandles - 1)..(MinCandles + 1)

AnyOrderValues ==
    UNION {{v \in [1..n -> {Raw(WithTime(sh, t)) : sh \in OrderShapes, t \in FetchTimes}] :
              \A i, j \in 1..n : i # j => v[i].time # v[j].time} :
           n \in {m \in FetchLengths : m <= Cardinality(FetchTimes)}}

OneDefectValues ==
    UNION {{[i \in 1..n |-> RawWithTime(IF i = k THEN sh ELSE RawQuiet, 2 * (n + 1 - i))] :
              k \in 1..n, sh \in RawShapes} :
           n \in FetchLengths}

Ok(values) == [kind |-> "ok", values |-> values]
ApiResponses ==
    {Ok(v) : v \in AnyOrderValues \cup OneDefectValues}
    \cup {[kind |-> "error", values |-> <<>>], [kind |-> "rateLimit", values |-> <<>>]}

\* What the API answers to a retry.
RetryResponses ==
    {Ok([i \in 1..MinCandles |-> RawWithTime(RawQuiet, 2 * (MinCandles + 1 - i))]),
     Ok([i \in 1..MinCandles |->
           RawWithTime(IF i = 1 THEN [RawQuiet EXCEPT !.low = NaN] ELSE RawQuiet,
                       2 * (MinCandles + 1 - i))]),
     [kind |-> "error", values |-> <<>>]}

\* The signals checked on the candles a fetch returned: created with the
\* oldest candle, and triggered on it.
FetchSignals ==
    {[id |-> 1, direction |-> p.direction, entry |-> p.entry, stop_loss |-> p.stop_loss,
      take_profits |-> p.take_profits, created_at |-> 2, triggered_at |-> Some(2)] :
        p \in {q \in Proposals : Len(q.take_profits) = 1}}

InitFetch ==
    /\ EngineUnused
    /\ calc = None
    /\ ScannerStopped
    /\ NoDecision
    /\ NoTrial
    /\ NoLimiter
    /\ NoPrefilter
    /\ NoLive
    /\ \E response \in ApiResponses :
          fetch = [attempt |-> 1, response |-> response, result |-> None,
                   checked |-> None]

\* The catch of fetchCandles leaves the retry loop when error.context has
\* isRateLimit set.  A MarketDataError keeps what it was given in
\* error.details and has no context property, so no error does.
MarketDataError(details) ==
    [name |-> "MarketDataError", details |-> details, context |-> None]
ErrorOf(response) == MarketDataError([isRateLimit |-> response.kind = "rateLimit"])
SkipsRetries(response) ==
    LET error == ErrorOf(response) IN
    error.context # None /\ error.context[1].isRateLimit

\* fetchCandles, one turn of its retry loop: the attempt returns the candles,
\* or fails and is retried, or was the last.
FetchAttempt ==
    /\ fetch.result = None
    /\ LET r == Attempt(fetch.response) IN
       IF ~r.thrown THEN fetch' = [fetch EXCEPT !.result = Some(r)]
       ELSE IF SkipsRetries(fetch.response) \/ fetch.attempt >= maxRetries
       THEN fetch' = [fetch EXCEPT !.result = Some(Thrown)]
       ELSE \E response \in RetryResponses :
               fetch' = [fetch EXCEPT !.attempt = @ + 1, !.response = response]
    /\ UNCHANGED <<engine, calc, scheduler, scans, clock, decision, trial, limiter, prefilter, live>>

\* checkPendingSignal and checkTriggeredSignal on the candles returned.
CheckFetched ==
    /\ fetch.result # None
    /\ ~fetch.result[1].thrown
    /\ fetch.checked = None
    /\ \E signal \in FetchSignals :
          LET candles == fetch.result[1].value[1] IN
          fetch' = [fetch EXCEPT !.checked =
                      Some([signal |-> signal,
                            pending |-> PendingEffect(signal, candles, 8),
                            triggered |-> TriggeredEffect(signal, candles)])]
    /\ UNCHANGED <<engine, calc, scheduler, scans, clock, decision, trial, limiter, prefilter, live>>

NextFetch == FetchAttempt \/ CheckFetched

SpecFetch == InitFetch /\ [][NextFetch]_vars

\* ---------------------------------------------------------------- isolation
\* One loop over units of work (checkPendingSignals, checkTriggeredSignals, or
\* the loop of scan() over the combinations), run twice on the same units and
\* the same inputs: once with no error, once with one unit raising an error.
UnitIndexes == 1..3

\* A run of the loop: the next unit, the table, the messages, and what each
\* unit returned or that it threw.
StartRun(d, n) == [i |-> 1, n |-> n, db |-> d, sent |-> {}, results |-> <<>>]

\* The loop without its try/catch: the error ends the loop.
Uncaught(run) == [run EXCEPT !.i = run.n + 1, !.results = Append(@, Thrown)]

\* catch (error) { logger.error(...) } of the loop: the next unit is next.
Caught(run) == [run EXCEPT !.i = @ + 1, !.results = Append(@, Thrown)]

\* await checkPendingSignal(signal) / checkTriggeredSignal(signal) returning.
CheckSignal(run, signal, in) ==
    LET effect == IF signal.status = "pending"
                  THEN PendingEffect(signal, in.candles, in.now)
                  ELSE TriggeredEffect(signal, in.candles)
    IN  [run EXCEPT
           !.i = @ + 1,
           !.db = ApplyEffect(@, signal.id, effect),
           !.sent = IF effect.notify # None
                    THEN @ \cup {<<signal.id, effect.notify[1]>>} ELSE @,
           !.results = Append(@, Returned(effect))]

\* scan(): the body of the loop over the combinations after the fetch
\* returned, i.e. the loop over the modes.
RECURSIVE ScanModes(_, _, _, _, _)
ScanModes(state, c, in, t, j) ==
    IF j > Len(Modes) THEN state
    ELSE LET unit == [symbol |-> c.symbol, timeframe |-> c.timeframe,
                      mode |-> Modes[j]]
             u == ScanUnit(state.db, unit, in[j].response, in[j].inputs, t)
         IN  ScanModes([db |-> u.db,
                        sent |-> IF u.outcome = "inserted" /\ in[j].inputs.delivered
                                 THEN state.sent \cup {<<u.id[1], "new">>}
                                 ELSE state.sent,
                        outcomes |-> Append(state.outcomes, u.outcome)],
                       c, in, t, j + 1)

ScanCombination(run, c, in, t) ==
    LET end == ScanModes([db |-> run.db, sent |-> run.sent, outcomes |-> <<>>],
                         c, in, t, 1)
    IN  [run EXCEPT !.i = @ + 1, !.db = end.db, !.sent = end.sent,
                    !.results = Append(@, Returned(end.outcomes))]

\* The signals of the loops of the engine: the entry of the quiet candle, the
\* stop-loss a tick away, one take-profit as far on the other side; created at
\* the first candle, and triggered on it.
TrialProposals ==
    {p \in Proposals :
        /\ Abs(p.entry - p.stop_loss) = 1
        /\ p.take_profits = <<2 * p.entry - p.stop_loss>>}
TrialRow(id, p, status) ==
    [NewRow(<<>>, p, 2) EXCEPT
       !.id = id, !.status = status,
       !.triggered_at = IF status = "triggered" THEN Some(2) ELSE None]

\* What fetchCandles returns to a check: two later candles, each the quiet
\* one, one above the entry, one below it, or one spanning every price.
TrialShapes ==
    {sh \in CandleShapes :
        <<sh.low, sh.high>> \in
            {<<QuietCandle.low, QuietCandle.high>>,
             <<QuietCandle.high + 1, MaxPrice>>,
             <<1, QuietCandle.low - 1>>,
             <<1, MaxPrice>>}}
TrialCandles ==
    {<<WithTime(a, 4), WithTime(b, 6)>> : a \in TrialShapes, b \in TrialShapes}
CheckInputs == [candles : TrialCandles, now : {7}]

\* What the collaborators of scan() do for one mode of a combination.
TrialResponses ==
    {r \in ScanResponses :
        r.direction = "none" \/ (r.direction = "long" /\ r.stop_loss < r.entry)}
ModeInputs ==
    [response : TrialResponses,
     inputs : {in \in ScanInputs : in.atrOk /\ in.delivered}]
CombinationInputs == [1..Len(Modes) -> ModeInputs]

InitTrial ==
    /\ EngineUnused
    /\ calc = None
    /\ ScannerStopped
    /\ NoFetch
    /\ NoDecision
    /\ NoLimiter
    /\ NoPrefilter
    /\ NoLive
    /\ \/ \E status \in {"pending", "triggered"},
             ps \in [UnitIndexes -> TrialProposals],
             failing \in UnitIndexes :
             LET d == [id \in UnitIndexes |-> TrialRow(id, ps[id], status)]
                 queue == GetSignalsByStatus(d, status)
             IN  trial = [loop |-> status,
                          work |-> queue,
                          failing |-> failing,
                          plain |-> StartRun(d, Len(queue)),
                          faulty |-> StartRun(d, Len(queue))]
       \/ \E failing \in DOMAIN Combinations :
             trial = [loop |-> "scan",
                      work |-> Combinations,
                      failing |-> failing,
                      plain |-> StartRun(<<>>, Len(Combinations)),
                      faulty |-> StartRun(<<>>, Len(Combinations))]

\* One turn of the loop in both runs, on the same unit and inputs: the run
\* with the error, unless the error has ended it, handles the unit like the
\* other run or, at the failing unit, ends in the catch of the loop.
BothRuns(plain, faulty) ==
    LET k == trial.plain.i IN
    trial' = [trial EXCEPT
                !.plain = plain,
                !.faulty = IF @.i # k THEN @
                           ELSE IF k = trial.failing THEN Caught(@)
                           ELSE faulty]

\* checkPendingSignals / checkTriggeredSignals: one turn of the loop.
CheckNextSignal ==
    /\ trial.loop \in {"pending", "triggered"}
    /\ trial.plain.i <= trial.plain.n
    /\ \E in \in CheckInputs :
          LET signal == trial.work[trial.plain.i] IN
          BothRuns(CheckSignal(trial.plain, signal, in),
                   CheckSignal(trial.faulty, signal, in))
    /\ UNCHANGED <<engine, calc, scheduler, scans, clock, fetch, decision, limiter, prefilter, live>>

\* scan(): one turn of the loop over the combinations.
ScanNextCombination ==
    /\ trial.loop = "scan"
    /\ trial.plain.i <= trial.plain.n
    /\ \E in \in CombinationInputs :
          LET c == trial.work[trial.plain.i] IN
          BothRuns(ScanCombination(trial.plain, c, in, clock),
                   ScanCombination(trial.faulty, c, in, clock))
    /\ UNCHANGED <<engine, calc, scheduler, scans, clock, fetch, decision, limiter, prefilter, live>>

NextTrial == CheckNextSignal \/ ScanNextCombination

SpecTrial == InitTrial /\ [][NextTrial]_vars

\* ---------------------------------------------------------------- rate limiter
\* config.rateLimiter, scaled down: calls per minute, calls per day and the
\* daily buffer; the minute and the day in ticks of the model's time; the
\* symbol x timeframe combinations, numbered from 0.
maxCallsPerMinute == 3
maxCallsPerDay == 5
dailyBuffer == 1
MinuteTicks == 2
DayTicks == 3
MaxTime == 4
MaxRequests == 4
NumCombinations == 3

Times == 0..MaxTime

\* getTodayDateString()
Today(t) == t \div DayTicks

\* new RateLimiter(options) with no state file.
NewRateLimiter(t) ==
    [date |-> Today(t), callCount |-> 0, minuteCallLog |-> <<>>, rotationIndex |-> 0]

CheckDailyReset(l, t) ==
    IF l.date # Today(t)
    THEN [l EXCEPT !.date = Today(t), !.callCount = 0, !.rotationIndex = 0]
    ELSE l

CleanMinuteCallLog(l, t) ==
    LET recent(timestamp) == timestamp > t - MinuteTicks IN
    [l EXCEPT !.minuteCallLog = SelectSeq(@, recent)]

\* canMakeCall(count): the limiter afterwards and check.allowed.
CanMakeCall(l, t, count) ==
    LET c == CleanMinuteCallLog(CheckDailyReset(l, t), t) IN
    [limiter |-> c,
     allowed |-> /\ ~(Len(c.minuteCallLog) + count > maxCallsPerMinute)
                 /\ ~(c.callCount + count > maxCallsPerDay - dailyBuffer)]

\* recordCall(count)
RecordCall(l, t, count) ==
    [l EXCEPT !.minuteCallLog = @ \o [i \in 1..count |-> t],
              !.callCount = @ + count]

\* getCombinationsForCycle that moves the rotation on by one combination.
GetCombinationsForCycleByOne(l, t, maxPerCycle) ==
    LET c == CleanMinuteCallLog(CheckDailyReset(l, t), t)
        remainingMinute == maxCallsPerMinute - Len(c.minuteCallLog)
        remainingDaily == (maxCallsPerDay - dailyBuffer) - c.callCount
        maxAllowed == Min(IF maxPerCycle = 0 THEN maxCallsPerMinute ELSE maxPerCycle,
                          Min(remainingMinute, remainingDaily))
    IN  IF maxAllowed <= 0
        THEN [limiter |-> c, maxAllowed |-> maxAllowed, selected |-> <<>>]
        ELSE [limiter |-> [c EXCEPT !.rotationIndex = (@ + 1) % NumCombinations],
              maxAllowed |-> maxAllowed,
              selected |-> [i \in 1..Min(maxAllowed, NumCombinations) |->
                              (c.rotationIndex + (i - 1)) % NumCombinations]]

\* getCombinationsForCycle(symbols, timeframes, maxPerCycle): the limiter
\* afterwards, maxAllowed and the combinations selected.
GetCombinationsForCycle(l, t, maxPerCycle) ==
    LET c == CleanMinuteCallLog(CheckDailyReset(l, t), t)
        remainingMinute == maxCallsPerMinute - Len(c.minuteCallLog)
        remainingDaily == (maxCallsPerDay - dailyBuffer) - c.callCount
        maxAllowed == Min(IF maxPerCycle = 0 THEN maxCallsPerMinute ELSE maxPerCycle,
                          Min(remainingMinute, remainingDaily))
    IN  IF maxAllowed <= 0
        THEN [limiter |-> c, maxAllowed |-> maxAllowed, selected |-> <<>>]
        ELSE [limiter |-> [c EXCEPT !.rotationIndex =
                                      (@ + maxAllowed) % NumCombinations],
              maxAllowed |-> maxAllowed,
              selected |-> [i \in 1..Min(maxAllowed, NumCombinations) |->
                              (c.rotationIndex + (i - 1)) % NumCombinations]]

\* The latest calls of getCombinationsForCycle that selected anything, as
\* many as there are combinations.
Latest(history) ==
    IF Len(history) <= NumCombinations THEN history
    ELSE SubSeq(history, Len(history) - NumCombinations + 1, Len(history))

InitLimiter ==
    /\ EngineUnused
    /\ calc = None
    /\ ScannerStopped
    /\ NoFetch
    /\ NoDecision
    /\ NoTrial
    /\ NoPrefilter
    /\ NoLive
    /\ \E maxPerCycle \in 1..NumCombinations :
          limiter = [state |-> NewRateLimiter(0),
                     maxPerCycle |-> maxPerCycle,
                     now |-> 0,
                     requests |-> [t \in Times |-> 0],
                     history |-> <<>>,
                     scan |-> None]

\* Time passes by a tick.
TimePasses ==
    /\ limiter.now < MaxTime
    /\ limiter' = [limiter EXCEPT !.now = @ + 1]
    /\ UNCHANGED <<engine, calc, scheduler, scans, clock, fetch, decision, trial, prefilter, live>>

\* scan(): the combinations of the cycle are selected; with none the cycle
\* is skipped.
SelectCombinations ==
    /\ limiter.scan = None
    /\ LET g == GetCombinationsForCycle(limiter.state, limiter.now, limiter.maxPerCycle)
       IN  limiter' = [limiter EXCEPT
              !.state = g.limiter,
              !.history = IF g.selected = <<>> THEN @
                          ELSE Latest(Append(@, [k |-> g.maxAllowed,
                                                 selected |-> g.selected,
                                                 date |-> g.limiter.date])),
              !.scan = IF g.selected = <<>> THEN None
                       ELSE Some([selected |-> g.selected, i |-> 1])]
    /\ UNCHANGED <<engine, calc, scheduler, scans, clock, fetch, decision, trial, prefilter, live>>

\* scan(): one pass of the loop over the combinations. When canMakeCall(1)
\* does not allow the call the loop breaks; otherwise fetchCandles makes its
\* requests, one per attempt, and the call is recorded when fetchCandles
\* returned.
FetchForCombination ==
    /\ limiter.scan # None
    /\ LET check == CanMakeCall(limiter.state, limiter.now, 1)
           scan == limiter.scan[1]
       IN  IF ~check.allowed
           THEN limiter' = [limiter EXCEPT !.state = check.limiter, !.scan = None]
           ELSE \E attempts \in 1..maxRetries, returned \in BOOLEAN :
                   /\ ~returned => attempts = maxRetries
                   /\ limiter.requests[limiter.now] + attempts <= MaxRequests
                   /\ limiter' = [limiter EXCEPT
                         !.state = IF returned
                                   THEN RecordCall(check.limiter, limiter.now, 1)
                                   ELSE check.limiter,
                         !.requests[limiter.now] = @ + attempts,
                         !.scan = IF scan.i < Len(scan.selected)
                                  THEN Some([scan EXCEPT !.i = @ + 1]) ELSE None]
    /\ UNCHANGED <<engine, calc, scheduler, scans, clock, fetch, decision, trial, prefilter, live>>

NextLimiter == TimePasses \/ SelectCombinations \/ FetchForCombination

SpecLimiter == InitLimiter /\ [][NextLimiter]_vars

\* ------------------------------------------------------------- indicators
\* The indicator functions and the pre-filter, each followed on one call.
\* Prices are in ticks of 0.0001; averages and index values are fractions
\* <<numerator, denominator>> with a positive denominator.

\* The RSI period (14 by default) and the closes it is calculated on.
rsiPeriod == 2
MaxClose == 3
MaxCloses == 5
Closes == 1..MaxClose

RECURSIVE SeqsUpTo(_, _)
SeqsUpTo(S, n) ==
    IF n = 0 THEN {<<>>}
    ELSE LET shorter == SeqsUpTo(S, n - 1) IN
         shorter \cup {Append(q, x) : q \in {r \in shorter : Len(r) = n - 1}, x \in S}

Changes(prices) == [i \in 1..(Len(prices) - 1) |-> prices[i + 1] - prices[i]]

\* calculateRSI: the sums of the first `period` changes, over `period`.
RECURSIVE InitialAverage(_, _, _)
InitialAverage(changes, period, i) ==
    IF i = 0 THEN [gain |-> 0, loss |-> 0, den |-> period]
    ELSE LET sum == InitialAverage(changes, period, i - 1) IN
         IF changes[i] > 0
         THEN [sum EXCEPT !.gain = @ + changes[i]]
         ELSE [sum EXCEPT !.loss = @ + Abs(changes[i])]

\* calculateRSI: the smoothed averages after each of the changes from the
\* i-th on, avg being the averages before it.
RECURSIVE SmoothedAverages(_, _, _, _)
SmoothedAverages(changes, period, i, avg) ==
    IF i > Len(changes) THEN <<>>
    ELSE LET change == changes[i]
             gain == IF change > 0 THEN change ELSE 0
             loss == IF change < 0 THEN Abs(change) ELSE 0
             next == [gain |-> avg.gain * (period - 1) + gain * avg.den,
                      loss |-> avg.loss * (period - 1) + loss * avg.den,
                      den |-> avg.den * period]
         IN  <<next>> \o SmoothedAverages(changes, period, i + 1, next)

\* calculateRSI: the averages behind the value at each index from `period`
\* on (index period + 1 of a sequence that starts at 1).
Averages(prices, period) ==
    LET changes == Changes(prices)
        first == InitialAverage(changes, period, period)
    IN  <<first>> \o SmoothedAverages(changes, period, period + 1, first)

\* rs = avgLoss === 0 ? 100 : avgGain / avgLoss
RelativeStrength(avg) == IF avg.loss = 0 THEN <<100, 1>> ELSE <<avg.gain, avg.loss>>

\* 100 - (100 / (1 + rs))
IndexOf(rs) == <<100 * (rs[2] + rs[1]) - 100 * rs[2], rs[2] + rs[1]>>

\* calculateRSI(prices, period): NaN where there is too little data.
CalculateRSI(prices, period) ==
    IF Len(prices) < period + 1 THEN [i \in 1..Len(prices) |-> NaN]
    ELSE LET averages == Averages(prices, period) IN
         [i \in 1..Len(prices) |->
            IF i <= period THEN NaN
            ELSE Num(IndexOf(RelativeStrength(averages[i - period])))]

\* !x of a moving average, an ATR or any other number: null, NaN and 0 are
\* all falsy.
Missing(x) == x = None \/ x[1] = 0

\* determineTrend: the last swing of `swings` above (below) the first one.
Higher(swings) == Len(swings) >= 2 /\ swings[Len(swings)] > swings[1]
Lower(swings) == Len(swings) >= 2 /\ swings[Len(swings)] < swings[1]

\* determineTrend: emaSpread < 0.5, emaSpread being the distance of the
\* averages as a percentage of their mean.
SpreadBelowHalfPercent(ema50, ema200) == 400 * Abs(ema50 - ema200) < ema50 + ema200

Graded(direction, both, either) ==
    [direction |-> direction,
     strength |-> IF both THEN "strong" ELSE IF either THEN "moderate" ELSE "weak"]

\* determineTrend(price, ema50, ema200, candles), recentHighs and recentLows
\* being the prices of the swings found in the last 20 candles.
DetermineTrend(price, ema50, ema200, recentHighs, recentLows) ==
    IF Missing(ema50) \/ Missing(ema200)
    THEN [direction |-> "unclear", strength |-> "weak"]
    ELSE LET priceAboveEma50 == price > ema50[1]
             ema50AboveEma200 == ema50[1] > ema200[1]
         IN  IF priceAboveEma50 /\ ema50AboveEma200
             THEN Graded("uptrend", Higher(recentHighs) /\ Higher(recentLows),
                         Higher(recentHighs) \/ Higher(recentLows))
             ELSE IF ~priceAboveEma50 /\ ~ema50AboveEma200
             THEN Graded("downtrend", Lower(recentHighs) /\ Lower(recentLows),
                         Lower(recentHighs) \/ Lower(recentLows))
             ELSE IF SpreadBelowHalfPercent(ema50[1], ema200[1])
             THEN [direction |-> "choppy", strength |-> "weak"]
             ELSE [direction |-> "transition", strength |-> "weak"]

\* Prices and averages around 0.02, half a percent apart at most, and the
\* swings of the last candles.
Levels == {199, 200, 201}
Averaged == {None, Some(0)} \cup {Some(x) : x \in Levels}
RecentSwings == SeqsUpTo({1, 2}, 2)

\* getMinimumATR(price): 0.0001 below a price of 10, price * 0.0001 from
\* there on; in ticks, as a fraction.
GetMinimumATR(price) == IF price < 100000 THEN <<1, 1>> ELSE <<price, 10000>>

\* x.toFixed(5) of a fraction of ticks: the number of hundred-thousandths,
\* which ToString writes out.
ToFixed(x) == MathRound(10 * x[1], x[2])

Found(text) == Some(text)
NotFound == None

\* checkTrendAlignedEngulfing(indicators)
CheckTrendAlignedEngulfing(indicators) ==
    IF /\ indicators.patterns.bullishEngulfing
       /\ indicators.trend.direction = "uptrend"
       /\ indicators.currentPrice > indicators.ema50[1]
    THEN Found(<<"Bullish engulfing in uptrend">>)
    ELSE IF /\ indicators.patterns.bearishEngulfing
            /\ indicators.trend.direction = "downtrend"
            /\ indicators.currentPrice < indicators.ema50[1]
    THEN Found(<<"Bearish engulfing in downtrend">>)
    ELSE NotFound

\* checkPinBarAtStructure(indicators, lastCandle)
CheckPinBarAtStructure(indicators) ==
    LET nearSR == indicators.swings.nearSR IN
    IF nearSR = None THEN NotFound
    ELSE IF indicators.patterns.bullishPin /\ nearSR[1].type = "support"
    THEN Found(<<"Bullish pin bar at support level (", ToString(ToFixed(<<nearSR[1].price, 1>>)), ")">>)
    ELSE IF indicators.patterns.bearishPin /\ nearSR[1].type = "resistance"
    THEN Found(<<"Bearish pin bar at resistance level (", ToString(ToFixed(<<nearSR[1].price, 1>>)), ")">>)
    ELSE NotFound

\* candles.slice(-10).map(c => c.close)
RecentCloses(candles) ==
    SubSeq(candles, Max(1, Len(candles) - 9), Len(candles))

RECURSIVE MinOf(_)
MinOf(closes) ==
    IF Len(closes) = 1 THEN closes[1] ELSE Min(closes[1], MinOf(Tail(closes)))
RECURSIVE MaxOf(_)
MaxOf(closes) ==
    IF Len(closes) = 1 THEN closes[1] ELSE Max(closes[1], MaxOf(Tail(closes)))

\* checkPullbackIntoTrend(candles, indicators); a comparison with the
\* undefined close before the only one is false.
CheckPullbackIntoTrend(candles, indicators) ==
    LET closes == RecentCloses(candles)
        price == indicators.currentPrice
        ema50 == indicators.ema50[1]
        highs == indicators.swings.swingHighs
        lows == indicators.swings.swingLows
    IN  IF indicators.trend.direction = "uptrend"
        THEN LET minRecent == MinOf(closes)
                 priceBounced == /\ price > minRecent
                                 /\ Len(closes) >= 2
                                 /\ closes[Len(closes) - 1] < price
                 touchedEMA50 == 200 * Abs(minRecent - ema50) < ema50
                 nearSwingLow == /\ Len(lows) > 0
                                 /\ 100 * Abs(minRecent - lows[Len(lows)]) < minRecent
             IN  IF priceBounced /\ (touchedEMA50 \/ nearSwingLow)
                 THEN Found(<<"Pullback to support in uptrend, bouncing">>)
                 ELSE NotFound
        ELSE IF indicators.trend.direction = "downtrend"
        THEN LET maxRecent == MaxOf(closes)
                 priceRejected == /\ price < maxRecent
                                  /\ Len(closes) >= 2
                                  /\ closes[Len(closes) - 1] > price
                 touchedEMA50 == 200 * Abs(maxRecent - ema50) < ema50
                 nearSwingHigh == /\ Len(highs) > 0
                                  /\ 100 * Abs(maxRecent - highs[Len(highs)]) < maxRecent
             IN  IF priceRejected /\ (touchedEMA50 \/ nearSwingHigh)
                 THEN Found(<<"Pullback to resistance in downtrend, rejecting">>)
                 ELSE NotFound
        ELSE NotFound

\* checkRSIDivergence(candles, indicators)
CheckRSIDivergence(indicators) ==
    LET highs == indicators.swings.swingHighs
        lows == indicators.swings.swingLows
    IN  IF Len(highs) < 2 \/ Len(lows) < 2 THEN NotFound
        ELSE IF indicators.rsi14 < 30 /\ Len(lows) >= 2
        THEN Found(<<"RSI oversold with potential bullish divergence">>)
        ELSE IF indicators.rsi14 > 70 /\ Len(highs) >= 2
        THEN Found(<<"RSI overbought with potential bearish divergence">>)
        ELSE NotFound

\* checkReversalAtSR(indicators)
CheckReversalAtSR(indicators) ==
    LET nearSR == indicators.swings.nearSR
        patterns == indicators.patterns
    IN  IF nearSR = None \/ nearSR[1].touches < 2 THEN NotFound
        ELSE IF /\ nearSR[1].type = "support"
                /\ (patterns.bullishEngulfing \/ patterns.bullishPin)
        THEN Found(<<"Reversal setup at strong support (", ToString(nearSR[1].touches), " touches)">>)
        ELSE IF /\ nearSR[1].type = "resistance"
                /\ (patterns.bearishEngulfing \/ patterns.bearishPin)
        THEN Found(<<"Reversal setup at strong resistance (", ToString(nearSR[1].touches), " touches)">>)
        ELSE NotFound

\* reasons.push(...) of a check that found something
Push(reasons, found) == IF found = NotFound THEN reasons ELSE Append(reasons, found[1])

\* reasons.join(' + ')
RECURSIVE Join(_)
Join(reasons) ==
    IF Len(reasons) = 0 THEN <<>>
    ELSE IF Len(reasons) = 1 THEN reasons[1]
    ELSE reasons[1] \o <<" + ">> \o Join(Tail(reasons))

Rejected(text) == [isCandidate |-> FALSE, reason |-> text]

\* applyPrefilters without the rejection of a choppy market.
ApplyPrefiltersChoppyAllowed(candles, indicators, mode) ==
    IF Len(candles) < MinCandles THEN Rejected(<<"Insufficient candle data">>)
    ELSE IF \/ Missing(indicators.atr14)
            \/ Missing(indicators.ema50)
            \/ Missing(indicators.ema200)
    THEN Rejected(<<"Missing required indicators">>)
    ELSE LET minAtr == GetMinimumATR(indicators.currentPrice) IN
    IF indicators.atr14[1] * minAtr[2] < minAtr[1]
    THEN Rejected(<<"ATR too small">>)
    ELSE LET engulfing == Push(<<>>, CheckTrendAlignedEngulfing(indicators))
             pinBar == Push(engulfing, CheckPinBarAtStructure(indicators))
             pullback == Push(pinBar, CheckPullbackIntoTrend(candles, indicators))
             divergence == IF mode = "aggressive"
                           THEN Push(pullback, CheckRSIDivergence(indicators))
                           ELSE pullback
             reasons == Push(divergence, CheckReversalAtSR(indicators))
         IN  IF Len(reasons) = 0 THEN Rejected(<<>>)
             ELSE [isCandidate |-> TRUE, reason |-> Join(reasons)]

\* applyPrefilters(candles, indicators, mode)
ApplyPrefilters(candles, indicators, mode) ==
    IF Len(candles) < MinCandles THEN Rejected(<<"Insufficient candle data">>)
    ELSE IF \/ Missing(indicators.atr14)
            \/ Missing(indicators.ema50)
            \/ Missing(indicators.ema200)
    THEN Rejected(<<"Missing required indicators">>)
    ELSE LET minAtr == GetMinimumATR(indicators.currentPrice) IN
    IF indicators.atr14[1] * minAtr[2] < minAtr[1]
    THEN Rejected(<<"ATR too small (", ToString(ToFixed(<<indicators.atr14[1], 1>>)), " < ",
                    ToString(ToFixed(minAtr)), "), insufficient volatility">>)
    ELSE IF indicators.trend.direction = "choppy"
    THEN Rejected(<<"Choppy market with flat EMAs, no clear trend">>)
    ELSE LET engulfing == Push(<<>>, CheckTrendAlignedEngulfing(indicators))
             pinBar == Push(engulfing, CheckPinBarAtStructure(indicators))
             pullback == Push(pinBar, CheckPullbackIntoTrend(candles, indicators))
             divergence == IF mode = "aggressive"
                           THEN Push(pullback, CheckRSIDivergence(indicators))
                           ELSE pullback
             reasons == Push(divergence, CheckReversalAtSR(indicators))
         IN  IF Len(reasons) = 0 THEN Rejected(<<>>)
             ELSE [isCandidate |-> TRUE, reason |-> Join(reasons)]

\* The candles handed to the pre-filter, as their closes, and the
\* indicators computed on them: the current price is the last close and the
\* trend that of the price and the averages.
PrefilterCandles ==
    {<<200>>, <<199, 200>>, <<200, 199>>, <<201, 200>>, <<200, 201>>, <<100000, 100001>>}
Detections ==
    [bullishEngulfing : BOOLEAN, bearishEngulfing : BOOLEAN,
     bullishPin : BOOLEAN, bearishPin : BOOLEAN]
Swings == {<<>>, <<200, 200>>}
NearLevels ==
    {None, Some([type |-> "support", price |-> 200, touches |-> 1])}
    \cup {Some([type |-> t, price |-> 200, touches |-> 2]) : t \in {"support", "resistance"}}
IndicatorsOf(candles, ema50, ema200, atr14, rsi14, patterns, highs, lows, nearSR) ==
    [ema50 |-> ema50, ema200 |-> ema200, atr14 |-> atr14, rsi14 |-> rsi14,
     swings |-> [swingHighs |-> highs, swingLows |-> lows, nearSR |-> nearSR],
     patterns |-> patterns,
     trend |-> DetermineTrend(candles[Len(candles)], ema50, ema200, <<>>, <<>>),
     currentPrice |-> candles[Len(candles)]]

\* The periods of the fast and the slow moving average (50 and 200) and the
\* number of candles a scan asks for (config.scanner.candleCount, 100 by
\* default), scaled down like the minimum of 50 candles.
emaFast == 2
emaSlow == 4
candleCount == 3

RECURSIVE SumOf(_)
SumOf(prices) == IF Len(prices) = 0 THEN 0 ELSE prices[1] + SumOf(Tail(prices))

\* calculateEMA: the values from index i on, prev being the one before;
\* (price - prev) * multiplier + prev with multiplier = 2 / (period + 1).
RECURSIVE SubsequentEMA(_, _, _, _)
SubsequentEMA(prices, period, i, prev) ==
    IF i > Len(prices) THEN <<>>
    ELSE LET next == <<(prices[i] * prev[2] - prev[1]) * 2 + prev[1] * (period + 1),
                       prev[2] * (period + 1)>>
         IN  <<Num(next)>> \o SubsequentEMA(prices, period, i + 1, next)

\* calculateEMA(prices, period)
CalculateEMA(prices, period) ==
    IF Len(prices) = 0 THEN <<>>
    ELSE IF period <= 0 \/ period > Len(prices) THEN [i \in 1..Len(prices) |-> NaN]
    ELSE LET first == <<SumOf(SubSeq(prices, 1, period)), period>> IN
         [i \in 1..(period - 1) |-> NaN] \o <<Num(first)>>
            \o SubsequentEMA(prices, period, period + 1, first)

\* getLatestEMA that averages the prices there are when they are fewer than
\* the period.
GetLatestEMAOfAvailable(prices, period) ==
    LET emaValues == CalculateEMA(prices, Min(period, Len(prices))) IN
    IF Len(emaValues) = 0 THEN None
    ELSE LET latest == emaValues[Len(emaValues)] IN
         IF IsNaN(latest) THEN None ELSE Some(latest[1])

\* getLatestEMA(prices, period): null for no value.
GetLatestEMA(prices, period) ==
    LET emaValues == CalculateEMA(prices, period) IN
    IF Len(emaValues) = 0 THEN None
    ELSE LET latest == emaValues[Len(emaValues)] IN
         IF IsNaN(latest) THEN None ELSE Some(latest[1])

\* A moving average that is a whole number of ticks, in ticks.
IsWhole(ema) == ema = None \/ ema[1][1] % ema[1][2] = 0
InTicks(ema) == IF ema = None THEN None ELSE Some(ema[1][1] \div ema[1][2])

\* computeAllIndicators(candles), the candles as their closes: throws on
\* fewer than the minimum of candles; the ATR, the RSI, the swings and the
\* patterns are those of `others`.
ComputeAllIndicators(candles, others) ==
    IF Len(candles) < MinCandles THEN Thrown
    ELSE Returned(IndicatorsOf(candles,
                               InTicks(GetLatestEMA(candles, emaFast)),
                               InTicks(GetLatestEMA(candles, emaSlow)),
                               others.atr14, others.rsi14, others.patterns,
                               others.swingHighs, others.swingLows, others.nearSR))

\* scan(), for one combination from the candles fetched on: the indicators,
\* the pre-filter's result for each mode, and how the units ended on an
\* empty table with every collaborator answering.
ScanOnCandles(candles, others, response, t) ==
    LET computed == ComputeAllIndicators(candles, others) IN
    IF computed.thrown
    THEN [indicators |-> None, results |-> <<>>, outcomes |-> <<>>, db |-> <<>>]
    ELSE LET indicators == computed.value[1]
             results == [j \in DOMAIN Modes |->
                            ApplyPrefilters(candles, indicators, Modes[j])]
             end == ScanModes([db |-> <<>>, sent |-> {}, outcomes |-> <<>>],
                              Combinations[1],
                              [j \in DOMAIN Modes |->
                                 [response |-> response,
                                  inputs |-> [candidate |-> results[j].isCandidate,
                                              apiOk |-> TRUE, atrOk |-> TRUE,
                                              busy |-> FALSE, delivered |-> TRUE]]],
                              t, 1)
         IN  [indicators |-> Some(indicators), results |-> results,
              outcomes |-> end.outcomes, db |-> end.db]

\* Closes of at most as many candles as the slow average takes, those whose
\* moving averages are whole numbers of ticks.
SpacedLevels == {197, 200, 203}
ScannedCloses ==
    {closes \in SeqsUpTo(SpacedLevels, emaSlow) :
        IsWhole(GetLatestEMA(closes, emaFast)) /\ IsWhole(GetLatestEMA(closes, emaSlow))}
OtherIndicators ==
    [atr14 : {Some(1)}, rsi14 : {29, 71}, patterns : Detections,
     swingHighs : {<<200, 200>>}, swingLows : {<<200, 200>>}, nearSR : NearLevels]

\* No call made yet.
InitPrefilter ==
    /\ EngineUnused
    /\ calc = None
    /\ ScannerStopped
    /\ NoFetch
    /\ NoDecision
    /\ NoTrial
    /\ NoLimiter
    /\ NoLive
    /\ prefilter = [op |-> "start", in |-> None, out |-> None]

Called(op, in, out) ==
    /\ prefilter' = [op |-> op, in |-> in, out |-> out]
    /\ UNCHANGED <<engine, calc, scheduler, scans, clock, fetch, decision, trial, limiter, live>>

\* calculateRSI(prices, period)
CalculateRSIStep ==
    /\ prefilter.op = "start"
    /\ \E prices \in SeqsUpTo(Closes, MaxCloses) :
        Called("calculateRSI", [prices |-> prices, period |-> rsiPeriod],
               CalculateRSI(prices, rsiPeriod))

\* determineTrend(currentPrice, ema50, ema200, candles)
DetermineTrendStep ==
    /\ prefilter.op = "start"
    /\ \E price \in Levels, ema50 \in Averaged, ema200 \in Averaged,
       recentHighs \in RecentSwings, recentLows \in RecentSwings :
        Called("determineTrend",
               [price |-> price, ema50 |-> ema50, ema200 |-> ema200,
                recentHighs |-> recentHighs, recentLows |-> recentLows],
               DetermineTrend(price, ema50, ema200, recentHighs, recentLows))

\* applyPrefilters(candles, indicators, mode)
ApplyPrefiltersStep ==
    /\ prefilter.op = "start"
    /\ \E candles \in PrefilterCandles,
       ema50 \in {None} \cup {Some(x) : x \in Levels}, ema200 \in {None, Some(200)},
       atr14 \in {None, Some(1), Some(10)}, rsi14 \in {29, 30, 70, 71},
       patterns \in Detections, highs \in Swings, lows \in Swings,
       nearSR \in NearLevels, mode \in {Modes[i] : i \in DOMAIN Modes} :
        LET indicators == IndicatorsOf(candles, ema50, ema200, atr14, rsi14,
                                       patterns, highs, lows, nearSR)
        IN  Called("applyPrefilters",
                   [candles |-> candles, indicators |-> indicators, mode |-> mode],
                   ApplyPrefilters(candles, indicators, mode))

\* scan(): one combination, from the candles fetched on.
ScanOnCandlesStep ==
    /\ prefilter.op = "start"
    /\ \E candles \in ScannedCloses, others \in OtherIndicators,
          response \in ScanResponses :
          Called("scan", [candles |-> candles, others |-> others, response |-> response],
                 ScanOnCandles(candles, others, response, clock))

NextPrefilter ==
    CalculateRSIStep \/ DetermineTrendStep \/ ApplyPrefiltersStep \/ ScanOnCandlesStep

SpecPrefilter == InitPrefilter /\ [][NextPrefilter]_vars

\* ---------------------------------------------------------------- liveness
\* One signal followed for as long as candles keep arriving, under any
\* configured thresholds.  Only the latest TriggeredCount candles are kept,
\* no check seeing more, and times are counted from the oldest candle kept:
\* a time before it is as good as any other time before it.

\* The thresholds up to one more than the window of the check that uses them.
Thresholds ==
    [expirationCandles : 1..(PendingCount + 1), timeoutCandles : 1..(TriggeredCount + 1)]

\* fetchCandles(symbol, timeframe, count) on the candles kept.
LatestCandles(candles, count) ==
    SubSeq(candles, Len(candles) - Min(count, Len(candles)) + 1, Len(candles))

\* A time of the signal, after the oldest candle was dropped and the times
\* were moved back by one candle.
MovedBack(time) == IF time = None THEN None ELSE Some(Max(0, time[1] - 2))

\* The market closes one more candle; the oldest one is dropped when the
\* triggered check cannot see it any more.
Arrived(l, shape) ==
    LET candles == Append(l.candles, WithTime(shape, 2 * (Len(l.candles) + 1))) IN
    IF Len(candles) <= TriggeredCount THEN [l EXCEPT !.candles = candles]
    ELSE [l EXCEPT
            !.candles = [i \in 1..TriggeredCount |->
                            [candles[i + 1] EXCEPT !.time = @ - 2]],
            !.signal = [@ EXCEPT
                          !.created_at = Max(0, @ - 2),
                          !.triggered_at = MovedBack(@)]]

InitLive ==
    /\ EngineUnused
    /\ calc = None
    /\ ScannerStopped
    /\ NoFetch
    /\ NoDecision
    /\ NoTrial
    /\ NoLimiter
    /\ NoPrefilter
    /\ \E config \in Thresholds, p \in TrialProposals :
          live = [config |-> config,
                  candles |-> [k \in 1..MinCandles |-> WithTime(QuietCandle, 2 * k)],
                  signal |-> NewRow(<<>>, p, 2 * MinCandles)]

\* A new candle arrives while the signal is open.
LiveCandle ==
    /\ live.signal.status \in {"pending", "triggered"}
    /\ \E shape \in TrialShapes : live' = Arrived(live, shape)
    /\ UNCHANGED <<engine, calc, scheduler, scans, clock, fetch, decision, trial, limiter, prefilter>>

\* The row after the update of an effect.
Updated(signal, effect) ==
    IF effect.update = None THEN signal
    ELSE UpdateSignalStatus(<<signal>>, 1, effect.update[1].status,
                            effect.update[1].fields)[1]

\* An evaluation cycle finds the signal pending: checkPendingSignal.
LiveCheckPending ==
    /\ live.signal.status = "pending"
    /\ live' = [live EXCEPT !.signal =
                  Updated(@, PendingEffectWith(@, LatestCandles(live.candles, PendingCount),
                                               2 * Len(live.candles) + 1,
                                               live.config.expirationCandles))]
    /\ UNCHANGED <<engine, calc, scheduler, scans, clock, fetch, decision, trial, limiter, prefilter>>

\* An evaluation cycle finds the signal triggered: checkTriggeredSignal.
LiveCheckTriggered ==
    /\ live.signal.status = "triggered"
    /\ live' = [live EXCEPT !.signal =
                  Updated(@, TriggeredEffectWith(@, LatestCandles(live.candles, TriggeredCount),
                                                 live.config.timeoutCandles))]
    /\ UNCHANGED <<engine, calc, scheduler, scans, clock, fetch, decision, trial, limiter, prefilter>>

NextLive == LiveCandle \/ LiveCheckPending \/ LiveCheckTriggered

\* New candles keep arriving, every fetch succeeds and the interval timer
\* keeps starting evaluation cycles: a check that would change the signal
\* again and again is run at some point (cycles start every minute, candles
\* close every 15 minutes at the most often).
SpecLive ==
    /\ InitLive
    /\ [][NextLive]_vars
    /\ WF_vars(LiveCandle)
    /\ SF_vars(LiveCheckPending)
    /\ SF_vars(LiveCheckTriggered)

\* ---------------------------------------------------------------- properties
\* The vocabulary of the properties, stated on the stored rows and on the
\* candles of the market, not through the operators of the checker.
Terminal == {"expired", "win", "loss", "timeout"}

LifecycleEdges ==
    {<<"pending", "triggered">>, <<"pending", "expired">>,
     <<"triggered", "win">>, <<"triggered", "loss">>, <<"triggered", "timeout">>}

\* The last step was a check that ran on fetched candles (the market has not
\* moved since); Handled is the signal as the cycle had read it, Stored its
\* row now.
PendingRan == event.op = "checkPendingSignal"
TriggeredRan == event.op = "checkTriggeredSignal"
Handled == event.signal[1]
Stored == db[Handled.id]

\* Indexes into market of the latest n candles, i.e. of a fetch of n.
Window(n) == {i \in DOMAIN market : i > Len(market) - n}

StopReached(s, c) ==
    \/ s.direction = "long" /\ c.low <= s.stop_loss
    \/ s.direction = "short" /\ c.high >= s.stop_loss

TargetReached(s, c, k) ==
    \/ s.direction = "long" /\ c.high >= s.take_profits[k]
    \/ s.direction = "short" /\ c.low <= s.take_profits[k]

Targets(s) == DOMAIN s.take_profits
AnyTargetReached(s, c) == \E k \in Targets(s) : TargetReached(s, c, k)
Fires(s, c) == StopReached(s, c) \/ AnyTargetReached(s, c)

\* The fetched candles strictly after the trigger, those of them on which the
\* stop-loss or a take-profit fires, and the earliest of these.
PostTrigger == {i \in Window(TriggeredCount) : market[i].time > Handled.triggered_at[1]}
Firing == {i \in PostTrigger : Fires(Handled, market[i])}
FirstFiring == market[CHOOSE i \in Firing : \A j \in Firing : i <= j]
Detail == Stored.outcome_detail[1]

\* The fetched candles at or after creation that contain the entry.
Entering ==
    {i \in Window(PendingCount) :
        /\ market[i].time >= Handled.created_at
        /\ market[i].low <= Handled.entry
        /\ Handled.entry <= market[i].high}
FirstEntering == market[CHOOSE i \in Entering : \A j \in Entering : i <= j]
StrictlyAfterCreation ==
    {i \in Window(PendingCount) : market[i].time > Handled.created_at}

\* C1: a status changes only along pending->triggered, pending->expired,
\* triggered->win, triggered->loss, triggered->timeout, and a row whose status
\* is expired, win, loss or timeout is never changed again by any step.
C1_LifecycleEdgesOnly ==
    [][\A id \in DOMAIN db :
          /\ db'[id].status # db[id].status =>
                <<db[id].status, db'[id].status>> \in LifecycleEdges
          /\ db[id].status \in Terminal => db'[id] = db[id]]_vars

\* C2: when the closing candle (the first fetched post-trigger candle on
\* which anything fires) reaches both the stop-loss and a take-profit, the
\* signal is closed as a stop-loss hit with outcome loss.
C2_StopLossBeforeTakeProfit ==
    (/\ TriggeredRan
     /\ Firing # {}
     /\ StopReached(Handled, FirstFiring)
     /\ AnyTargetReached(Handled, FirstFiring))
    => /\ Stored.status = "loss"
       /\ Stored.outcome = Some("loss")
       /\ Stored.outcome_detail # None
       /\ Detail.hit = "sl"

C2_Witness ==
    /\ TriggeredRan
    /\ Firing # {}
    /\ StopReached(Handled, FirstFiring)
    /\ AnyTargetReached(Handled, FirstFiring)
    /\ Stored.status = "loss"

\* C3: every stop-loss hit closes the signal with outcome loss, a stored risk
\* multiple of exactly -1 (-100 hundredths) and the stop-loss price as hit
\* price, however far beyond the stop the candle went.
C3_StopLossIsMinusOne ==
    (TriggeredRan /\ Firing # {} /\ StopReached(Handled, FirstFiring))
    => /\ Stored.status = "loss"
       /\ Stored.outcome = Some("loss")
       /\ Stored.outcome_detail # None
       /\ Detail.hit = "sl"
       /\ Detail.rr = -100
       /\ Detail.hitPrice = Handled.stop_loss

\* The candle went strictly beyond the stop.
C3_Witness ==
    /\ TriggeredRan
    /\ Firing # {}
    /\ StopReached(Handled, FirstFiring)
    /\ \/ Handled.direction = "long" /\ FirstFiring.low < Handled.stop_loss
       \/ Handled.direction = "short" /\ FirstFiring.high > Handled.stop_loss
    /\ Stored.outcome_detail # None
    /\ Detail.rr = -100

\* C4: when the closing candle does not reach the stop-loss, the recorded hit
\* is the lowest-index take-profit the candle reaches, at that take-profit's
\* price: tp1 when the candle passes beyond every take-profit.
C4_NearestTakeProfit ==
    (TriggeredRan /\ Firing # {} /\ ~StopReached(Handled, FirstFiring))
    => /\ Stored.outcome_detail # None
       /\ \E k \in Targets(Handled) :
             /\ TargetReached(Handled, FirstFiring, k)
             /\ \A j \in Targets(Handled) :
                   TargetReached(Handled, FirstFiring, j) => k <= j
             /\ Detail.hit = TpName[k]
             /\ Detail.hitPrice = Handled.take_profits[k]

\* The first post-trigger candle passes beyond all of two or more targets.
C4_Witness ==
    /\ TriggeredRan
    /\ Firing # {}
    /\ ~StopReached(Handled, FirstFiring)
    /\ Len(Handled.take_profits) >= 2
    /\ \A k \in Targets(Handled) : TargetReached(Handled, FirstFiring, k)
    /\ \A i \in PostTrigger : FirstFiring.time <= market[i].time
    /\ Stored.outcome_detail # None
    /\ Detail.hit = "tp1"

C6_TimeoutIsZero ==
    (TriggeredRan /\ Firing = {} /\ Cardinality(PostTrigger) >= timeoutCandles)
    => /\ Stored.status = "timeout"
       /\ Stored.outcome = Some("timeout")
       /\ Stored.outcome_detail # None
       /\ Detail.hit = "timeout"
       /\ Detail.rr = 0
       /\ Detail.hitPrice = market[Len(market)].close
       /\ Detail.hitTime = market[Len(market)].time
       /\ Stored.closed_at = Some(market[Len(market)].time)

\* The last close is away from the entry, and the candles closed differently.
C6_Witness ==
    /\ TriggeredRan
    /\ Firing = {}
    /\ Cardinality(PostTrigger) >= timeoutCandles
    /\ market[Len(market)].close # Handled.entry
    /\ \E i \in PostTrigger : market[i].close # market[Len(market)].close
    /\ Stored.status = "timeout"

C8_ExpiredOnlyWithoutEntry ==
    (PendingRan /\ Stored.status = "expired")
    => /\ Entering = {}
       /\ Cardinality(StrictlyAfterCreation) >= expirationCandles
       /\ Stored.outcome = None
       /\ Stored.outcome_detail = None
       /\ Stored.triggered_at = None

\* Expired with a fetched candle carrying the creation timestamp itself.
C8_Witness ==
    /\ PendingRan
    /\ Stored.status = "expired"
    /\ \E i \in Window(PendingCount) : market[i].time = Handled.created_at
    /\ Cardinality(StrictlyAfterCreation) = expirationCandles

\* C9: outcome and outcome_detail of a signal are written by at most one
\* update over the signal's life.
C9_OutcomeWrittenOnce ==
    \A id \in DOMAIN db : outcomeWrites[id] <= 1

\* C10: no step changes the id, direction, entry, stop_loss, take_profits or
\* created_at of a stored signal, and no step removes a row.
C10_ImmutableFields ==
    [][/\ DOMAIN db \subseteq DOMAIN db'
       /\ \A id \in DOMAIN db :
             /\ db'[id].id = db[id].id
             /\ db'[id].direction = db[id].direction
             /\ db'[id].entry = db[id].entry
             /\ db'[id].stop_loss = db[id].stop_loss
             /\ db'[id].take_profits = db[id].take_profits
             /\ db'[id].created_at = db[id].created_at]_vars

\* A signal has gone through both updates of its life.
C10_Witness ==
    \E id \in DOMAIN db :
        /\ db[id].status \in {"win", "loss", "timeout"}
        /\ db[id].triggered_at # None
        /\ db[id].outcome_detail # None

\* C11: a check that finds neither its closing nor its opening condition
\* changes nothing and notifies nobody: a triggered check with no stop-loss or
\* take-profit hit among the fetched post-trigger candles and fewer than
\* timeoutCandles of them (none included), and a pending check with no entry
\* candle and fewer than expirationCandles candles after creation, leave the
\* table and the delivered messages as they were.
C11_NoMutationOtherwise ==
    [][(\/ /\ TriggeredRan'
           /\ Firing' = {}
           /\ Cardinality(PostTrigger') < timeoutCandles
        \/ /\ PendingRan'
           /\ Entering' = {}
           /\ Cardinality(StrictlyAfterCreation') < expirationCandles)
       => /\ db' = db
          /\ sent' = sent
          /\ outcomeWrites' = outcomeWrites]_vars

\* A triggered check saw post-trigger candles, too few and none firing, and
\* the row is still the one that was read.
C11_Witness ==
    /\ TriggeredRan
    /\ Firing = {}
    /\ PostTrigger # {}
    /\ Cardinality(PostTrigger) < timeoutCandles
    /\ Stored = Handled
    /\ Stored.status = "triggered"

\* C12: for a take-profit hit and a risk unit |entry - stop_loss| > 0 the
\* calculated multiple is (hitPrice - entry) / riskUnit for long and
\* (entry - hitPrice) / riskUnit for short; a take-profit hit is a win when its
\* multiple is positive, breakeven when zero, a loss when negative; sl is a
\* loss and timeout a timeout whatever the multiple.
C12_TakeProfitMultipleAndOutcome ==
    LET s == calc.signal
        tp == calc.hitType \in {"tp1", "tp2", "tp3"}
        riskUnit == IF s.entry >= s.stop_loss THEN s.entry - s.stop_loss
                    ELSE s.stop_loss - s.entry
    IN  /\ (calc.rMultiple # None /\ tp /\ riskUnit > 0) =>
              LET m == calc.rMultiple[1] IN
              /\ m.den > 0
              /\ s.direction = "long" =>
                    m.num * riskUnit = (calc.hitPrice - s.entry) * m.den
              /\ s.direction = "short" =>
                    m.num * riskUnit = (s.entry - calc.hitPrice) * m.den
        /\ calc.outcome # None =>
              LET m == calc.outcome[1].multiple
                  o == calc.outcome[1].outcome
              IN  /\ (tp /\ m.num * m.den > 0) => o = "win"
                  /\ (tp /\ m.num * m.den = 0) => o = "breakeven"
                  /\ (tp /\ m.num * m.den < 0) => o = "loss"
                  /\ calc.hitType = "sl" => o = "loss"
                  /\ calc.hitType = "timeout" => o = "timeout"

\* A short whose target was hit above the entry: a negative multiple, a loss.
C12_Witness ==
    /\ calc.rMultiple # None
    /\ calc.outcome # None
    /\ calc.outcome[1].multiple = calc.rMultiple[1]
    /\ calc.signal.direction = "short"
    /\ calc.hitType = "tp2"
    /\ calc.signal.entry # calc.signal.stop_loss
    /\ calc.hitPrice > calc.signal.entry
    /\ calc.rMultiple[1].num < 0
    /\ calc.outcome[1].outcome = "loss"

\* C13: at most one scannerFn invocation is in progress at any time, and a
\* tick (or a repeated scheduleScanner) that comes while a scan is in progress
\* starts no scan.
C13_AtMostOneScan ==
    [][/\ Len(scans') <= 1
       /\ Len(scans) >= 1 => Len(scans') <= Len(scans)]_vars

\* A tick was skipped while a scan was past its first combination.
C13_Witness ==
    /\ event.op = "skipped"
    /\ scheduler.isRunning
    /\ Len(scans) = 1
    /\ scans[1].i > 1

\* C14: an interval tick that comes while an evaluate() invocation is still
\* running is skipped, so no two invocations are in progress holding the same
\* signal in the lists they are working through.
C14_NoOverlappingEvaluate ==
    \A a, b \in Cycles :
        a # b =>
            ~ \E i \in DOMAIN cycles[a].queue, j \in DOMAIN cycles[b].queue :
                  cycles[a].queue[i].id = cycles[b].queue[j].id

\* The candles a fetchCandles call returned, and the check made on them.
FetchReturned == fetch.result # None /\ ~fetch.result[1].thrown
Fetched == fetch.result[1].value[1]
FetchChecked == fetch.checked[1]
EarliestTime(times) == CHOOSE t \in times : \A u \in times : t <= u

\* C15: the candles a check works on are in strictly increasing timestamp
\* order (a list that is not is rejected or re-sorted by the fetch), so that
\* the recorded trigger candle is the earliest-timestamp candle at or after
\* creation containing the entry, and the recorded closing candle the
\* earliest-timestamp candle after the trigger on which the stop-loss or a
\* take-profit fires.
C15_EarliestTimestampFirst ==
    /\ FetchReturned =>
          \A i, j \in DOMAIN Fetched : i < j => Fetched[i].time < Fetched[j].time
    /\ (FetchReturned /\ fetch.checked # None) =>
          LET sig == FetchChecked.signal
              entering == {Fetched[i].time : i \in
                             {k \in DOMAIN Fetched :
                                /\ Fetched[k].time >= sig.created_at
                                /\ Fetched[k].low <= sig.entry
                                /\ sig.entry <= Fetched[k].high}}
              firing == {Fetched[i].time : i \in
                           {k \in DOMAIN Fetched :
                              /\ Fetched[k].time > sig.triggered_at[1]
                              /\ Fires(sig, Fetched[k])}}
          IN  /\ entering # {} =>
                    /\ FetchChecked.pending.update # None
                    /\ FetchChecked.pending.update[1].fields.triggered_at
                          = Some(EarliestTime(entering))
              /\ firing # {} =>
                    /\ FetchChecked.triggered.update # None
                    /\ FetchChecked.triggered.update[1].fields.closed_at
                          = Some(EarliestTime(firing))

\* C16: a trade proposal is persisted as a signal only if its confidence is at
\* least the configured threshold and it satisfies the ordering invariants
\* (long: entry above the stop-loss, every take-profit above the entry,
\* take-profits strictly ascending; short: mirrored; one to three
\* take-profits); every stored signal satisfies them and a violating proposal
\* is discarded without any insert.
Ordered(r) ==
    /\ Len(r.take_profits) \in 1..3
    /\ \/ /\ r.direction = "long"
          /\ r.entry > r.stop_loss
          /\ \A i \in DOMAIN r.take_profits : r.take_profits[i] > r.entry
          /\ \A i, j \in DOMAIN r.take_profits :
                i < j => r.take_profits[i] < r.take_profits[j]
       \/ /\ r.direction = "short"
          /\ r.entry < r.stop_loss
          /\ \A i \in DOMAIN r.take_profits : r.take_profits[i] < r.entry
          /\ \A i, j \in DOMAIN r.take_profits :
                i < j => r.take_profits[i] > r.take_profits[j]
Acceptable(r) == Ordered(r) /\ r.confidence >= confidenceThreshold
Decided == decision # None /\ decision.outcome # None

C16_PersistedOnlyIfValid ==
    Decided =>
        /\ decision.outcome = Some("inserted") => Acceptable(decision.response)
        /\ ~Acceptable(decision.response) => db = <<>>
        /\ \A i \in DOMAIN db : Acceptable(db[i])

C16_Witness ==
    /\ Decided
    /\ decision.outcome = Some("inserted")
    /\ Len(db) = 1
    /\ Len(db[1].take_profits) = 3
    /\ db[1].confidence = confidenceThreshold

\* C17: insertSignal called for a signal whose (symbol, timeframe, mode,
\* created_at) equals that of an existing row adds no row and returns null
\* (the caller logs a duplicate and continues) instead of raising an error.
\* Stated on a scan unit that reaches insertSignal with such a signal while
\* the database is not busy: it ends as a duplicate and the table is as before.
ScanUnitStep == Len(scans) = 1 /\ scans[1].j >= 1 /\ scans' # scans
KeyStored(d, unit, t) ==
    \E i \in DOMAIN d :
        /\ d[i].symbol = unit.symbol
        /\ d[i].timeframe = unit.timeframe
        /\ d[i].mode = unit.mode
        /\ d[i].created_at = t

C17_DuplicateReturnsNull ==
    [][(/\ ScanUnitStep
        /\ KeyStored(db, event'.signal[1].unit, clock)
        /\ event'.signal[1].outcome \in {"inserted", "duplicate", "insertFailed"}
        /\ ~event'.signal[1].busy)
       => (event'.signal[1].outcome = "duplicate" /\ db' = db)]_vars

\* The part of C17 that holds: such a unit adds no row.
C17_DuplicateAddsNoRow ==
    [][(ScanUnitStep /\ KeyStored(db, event'.signal[1].unit, clock))
       => db' = db]_vars

\* C18: a failure of the notification step never undoes or prevents the
\* status transition it reports: after a check whose candles call for a
\* transition and whose message was not delivered, the stored status is the
\* one the transition gives, as after a delivered message, and the cycle has
\* gone on past the signal.
Undelivered(kind) == <<Handled.id, kind>> \notin sent
Past == \A c \in Cycles : \A i \in DOMAIN cycles[c].queue :
            cycles[c].queue[i].id # Handled.id

C18_FailedNotificationKeepsTransition ==
    /\ (PendingRan /\ Entering # {} /\ Undelivered("triggered"))
          => (Stored.status = "triggered" /\ Past)
    /\ (/\ PendingRan
        /\ Entering = {}
        /\ Cardinality(StrictlyAfterCreation) >= expirationCandles
        /\ Undelivered("expired"))
          => (Stored.status = "expired" /\ Past)
    /\ (TriggeredRan /\ Firing # {} /\ Undelivered("outcome"))
          => (Stored.status \in {"win", "loss"} /\ Past)
    /\ (/\ TriggeredRan
        /\ Firing = {}
        /\ Cardinality(PostTrigger) >= timeoutCandles
        /\ Undelivered("outcome"))
          => (Stored.status = "timeout" /\ Past)

C18_Witness ==
    /\ PendingRan
    /\ Entering # {}
    /\ Undelivered("triggered")
    /\ Stored.status = "triggered"
    /\ sent = {}

\* The same for notifyNewSignal: a scan unit that inserted a row and whose
\* message was not delivered has added the row.
C18_InsertDespiteFailedNotification ==
    [][(/\ ScanUnitStep
        /\ event'.signal[1].outcome = "inserted"
        /\ <<event'.signal[1].id[1], "new">> \notin sent')
       => /\ Len(db') = Len(db) + 1
          /\ db'[Len(db')].status = "pending"
          /\ db'[Len(db')].id = event'.signal[1].id[1]]_vars

\* C19: within one cycle, an error raised while processing one signal (or one
\* symbol/timeframe combination in the scanner) does not stop processing of
\* the remaining signals (or combinations) of that cycle, and leaves their
\* results identical to a cycle in which the failing unit raised no error:
\* what every other unit returned, the rows of the other units (apart from
\* the AUTOINCREMENT id of an inserted row) and the messages about them.
Finished == trial # None /\ trial.plain.i > trial.plain.n
Others == DOMAIN trial.work \ {trial.failing}
WithoutId(row) == [f \in DOMAIN row \ {"id"} |-> row[f]]
Belongs(row, k) ==
    IF trial.loop = "scan"
    THEN /\ row.symbol = trial.work[k].symbol
         /\ row.timeframe = trial.work[k].timeframe
    ELSE row.id = trial.work[k].id
RowsOf(run, k) ==
    {WithoutId(run.db[i]) : i \in {j \in DOMAIN run.db : Belongs(run.db[j], k)}}
MessagesOf(run, k) ==
    {<<WithoutId(run.db[m[1]]), m[2]>> :
        m \in {x \in run.sent : Belongs(run.db[x[1]], k)}}

C19_ErrorsIsolated ==
    Finished =>
        /\ Len(trial.faulty.results) = Len(trial.work)
        /\ trial.faulty.results[trial.failing] = Thrown
        /\ \A k \in Others :
              /\ trial.faulty.results[k] = trial.plain.results[k]
              /\ RowsOf(trial.faulty, k) = RowsOf(trial.plain, k)
              /\ MessagesOf(trial.faulty, k) = MessagesOf(trial.plain, k)

\* The first signal of the list fails where it would have been triggered, and
\* the last one is triggered in both cycles.
C19_Witness ==
    /\ Finished
    /\ trial.loop = "pending"
    /\ trial.failing = 1
    /\ trial.plain.db[trial.work[1].id].status = "triggered"
    /\ trial.faulty.db[trial.work[1].id].status = "pending"
    /\ trial.faulty.db[trial.work[Len(trial.work)].id].status = "triggered"

\* C20: fetchCandles never returns a bar sequence containing a bar with a
\* non-positive or NaN price, high < max(open, close) or low > min(open,
\* close): a single invalid bar makes the whole fetched batch fail with a
\* MarketDataError, and no bar value is altered to make it pass (what is
\* returned is the batch of the API, oldest first, value for value).
Batch == fetch.response.values
HasNaN(bar) == NaN \in {bar.open, bar.high, bar.low, bar.close}
InvalidBar(bar) ==
    \/ HasNaN(bar)
    \/ bar.open[1] <= 0 \/ bar.high[1] <= 0 \/ bar.low[1] <= 0 \/ bar.close[1] <= 0
    \/ bar.high[1] < Max(bar.open[1], bar.close[1])
    \/ bar.low[1] > Min(bar.open[1], bar.close[1])
InvalidBars == {i \in DOMAIN Batch : InvalidBar(Batch[i])}

C20_NoInvalidBarReturned ==
    /\ FetchReturned =>
          /\ fetch.response.kind = "ok"
          /\ InvalidBars = {}
          /\ Len(Fetched) = Len(Batch)
          /\ \A i \in DOMAIN Fetched :
                /\ Raw(Fetched[i]) = Batch[Len(Batch) + 1 - i]
                /\ Fetched[i].open > 0 /\ Fetched[i].close > 0
                /\ Fetched[i].high >= Max(Fetched[i].open, Fetched[i].close)
                /\ Fetched[i].low <= Min(Fetched[i].open, Fetched[i].close)
                /\ Fetched[i].low > 0
    /\ (fetch # None /\ fetch.result # None /\ InvalidBars # {}) =>
          fetch.result = Some(Thrown)

\* The batch of the last attempt had one invalid bar among valid ones, and
\* the call threw.
C20_Witness ==
    /\ fetch # None
    /\ fetch.result = Some(Thrown)
    /\ fetch.response.kind = "ok"
    /\ Len(Batch) >= MinCandles
    /\ Cardinality(InvalidBars) = 1

\* C21: when the market-data API answers with an error whose message reports
\* a rate limit, fetchCandles makes no further request attempt for that call:
\* it fails after that single attempt instead of using the remaining retries.
C21_RateLimitEndsTheCall ==
    [][(fetch # None /\ fetch.result = None /\ fetch.response.kind = "rateLimit")
       => (fetch'.attempt = fetch.attempt /\ fetch'.result = Some(Thrown))]_vars

\* C22: within one calendar day, the number of market-data API requests
\* issued by scanner cycles (every request attempt counted, including retries
\* and fetches that end in failure) never exceeds the effective daily limit
\* maxCallsPerDay - dailyBuffer, and never exceeds maxCallsPerMinute within
\* any 60-second window.
RECURSIVE RequestsAt(_)
RequestsAt(ts) ==
    IF ts = {} THEN 0
    ELSE LET t == CHOOSE u \in ts : TRUE IN
         limiter.requests[t] + RequestsAt(ts \ {t})
RequestsInMinute(t) == RequestsAt({u \in Times : u > t - MinuteTicks /\ u <= t})
RequestsOnDay(d) == RequestsAt({u \in Times : Today(u) = d})

C22_RequestsWithinLimits ==
    limiter # None =>
        \A t \in Times :
            /\ RequestsInMinute(t) <= maxCallsPerMinute
            /\ RequestsOnDay(Today(t)) <= maxCallsPerDay - dailyBuffer

\* What holds instead: the calls the limiter has recorded stay within both
\* limits.
C22_RecordedWithinLimits ==
    limiter # None =>
        /\ limiter.state.callCount <= maxCallsPerDay - dailyBuffer
        /\ Len(CleanMinuteCallLog(limiter.state, limiter.now).minuteCallLog)
              <= maxCallsPerMinute

\* C23: round-robin rotation: each call of getCombinationsForCycle selects
\* the contiguous block (modulo N) of combinations that starts where the
\* previous call's selection ended, so with a per-cycle allowance k
\* (1 <= k <= N) and no daily reset in between, any ceil(N/k) consecutive
\* calls together select every one of the N combinations at least once.
Calls == limiter.history
Following(c) == (c + 1) % NumCombinations
Block(call) ==
    \A i \in 1..(Len(call.selected) - 1) :
        call.selected[i + 1] = Following(call.selected[i])
Selected(from, to) ==
    UNION {{Calls[j].selected[i] : i \in DOMAIN Calls[j].selected} : j \in from..to}
Rounds(k) == (NumCombinations + k - 1) \div k

C23_RoundRobin ==
    limiter # None =>
        /\ \A j \in DOMAIN Calls :
              /\ Calls[j].k \in 1..NumCombinations
              /\ Len(Calls[j].selected) = Calls[j].k
              /\ Block(Calls[j])
        /\ \A j \in 1..(Len(Calls) - 1) :
              Calls[j + 1].date = Calls[j].date =>
                 Calls[j + 1].selected[1] =
                    Following(Calls[j].selected[Len(Calls[j].selected)])
        /\ \A from \in DOMAIN Calls :
              LET to == from + Rounds(Calls[from].k) - 1 IN
              (/\ to \in DOMAIN Calls
               /\ \A j \in from..to :
                     Calls[j].k = Calls[from].k /\ Calls[j].date = Calls[from].date)
              => Selected(from, to) = 0..(NumCombinations - 1)

\* Two calls of an allowance that does not divide N: the second block wraps
\* around the end of the list.
C23_Witness ==
    /\ limiter # None
    /\ Len(Calls) >= 2
    /\ Calls[1].k = Calls[2].k
    /\ Calls[1].k > 1
    /\ Calls[1].date = Calls[2].date
    /\ Calls[2].selected[1] > Calls[2].selected[Len(Calls[2].selected)]
    /\ Selected(1, 2) = 0..(NumCombinations - 1)

\* C26: calculateRSI: every defined output lies in [0, 100], and the output
\* is exactly 100 at every index where the smoothed average loss is
\* exactly 0.
RsiCalled == prefilter # None /\ prefilter.op = "calculateRSI"
C26_RsiRangeAndHundred ==
    RsiCalled =>
        LET prices == prefilter.in.prices
            period == prefilter.in.period
            values == prefilter.out
        IN  \A i \in DOMAIN values :
               ~IsNaN(values[i]) =>
                  LET value == values[i][1] IN
                  /\ 0 <= value[1] /\ value[1] <= 100 * value[2]
                  /\ Averages(prices, period)[i - period].loss = 0
                        => value[1] = 100 * value[2]

\* Every defined output lies in [0, 100].
C26_RsiRange ==
    RsiCalled =>
        \A i \in DOMAIN prefilter.out :
           ~IsNaN(prefilter.out[i]) =>
              LET value == prefilter.out[i][1] IN
              0 <= value[1] /\ value[1] <= 100 * value[2]

\* C25: trend classification with both moving averages present: the
\* direction is uptrend iff price > fast > slow, downtrend iff
\* price < fast < slow (both strict), and for every other ordering, any
\* equality among price, fast and slow included, the result is choppy/weak
\* when the spread of the averages is below 0.5% and transition/weak
\* otherwise.
TrendCalled == prefilter # None /\ prefilter.op = "determineTrend"
BothPresent == ~Missing(prefilter.in.ema50) /\ ~Missing(prefilter.in.ema200)
Rising == prefilter.in.price > prefilter.in.ema50[1]
            /\ prefilter.in.ema50[1] > prefilter.in.ema200[1]
Falling == prefilter.in.price < prefilter.in.ema50[1]
             /\ prefilter.in.ema50[1] < prefilter.in.ema200[1]
Flat == 400 * Abs(prefilter.in.ema50[1] - prefilter.in.ema200[1])
            < prefilter.in.ema50[1] + prefilter.in.ema200[1]

C25_TrendClassification ==
    (TrendCalled /\ BothPresent) =>
        /\ prefilter.out.direction = "uptrend" <=> Rising
        /\ prefilter.out.direction = "downtrend" <=> Falling
        /\ (~Rising /\ ~Falling) =>
              prefilter.out = [direction |-> IF Flat THEN "choppy" ELSE "transition",
                               strength |-> "weak"]

\* The uptrend half, which the code keeps.
C25_UptrendIffRising ==
    (TrendCalled /\ BothPresent) => (prefilter.out.direction = "uptrend" <=> Rising)

\* C24: momentum-extreme heuristic: in aggressive mode it contributes a
\* reason whenever RSI < 30 and at least 2 swing lows are recorded (whatever
\* the number of swing highs), or RSI > 70 and at least 2 swing highs are
\* recorded (whatever the number of swing lows); in conservative mode it
\* never contributes.
Applied == prefilter # None /\ prefilter.op = "applyPrefilters"
Given == prefilter.in.indicators
PreconditionsHold ==
    /\ Len(prefilter.in.candles) >= MinCandles
    /\ ~Missing(Given.atr14) /\ ~Missing(Given.ema50) /\ ~Missing(Given.ema200)
    /\ ~(IF Given.currentPrice < 100000
         THEN Given.atr14[1] < 1
         ELSE 10000 * Given.atr14[1] < Given.currentPrice)
    /\ Given.trend.direction # "choppy"
MomentumTexts ==
    {"RSI oversold with potential bullish divergence",
     "RSI overbought with potential bearish divergence"}
Mentions(texts) == \E i \in DOMAIN prefilter.out.reason : prefilter.out.reason[i] \in texts
Extreme ==
    \/ Given.rsi14 < 30 /\ Len(Given.swings.swingLows) >= 2
    \/ Given.rsi14 > 70 /\ Len(Given.swings.swingHighs) >= 2

C24_MomentumExtreme ==
    (Applied /\ PreconditionsHold) =>
        /\ (prefilter.in.mode = "aggressive" /\ Extreme) => Mentions(MomentumTexts)
        /\ prefilter.in.mode = "conservative" => ~Mentions(MomentumTexts)

\* What the code keeps of it: the heuristic contributes exactly in aggressive
\* mode with an extreme RSI and at least 2 swing highs and 2 swing lows.
C24_MomentumNeedsBothSwings ==
    (Applied /\ PreconditionsHold) =>
        (Mentions(MomentumTexts) <=>
            /\ prefilter.in.mode = "aggressive"
            /\ Given.rsi14 < 30 \/ Given.rsi14 > 70
            /\ Len(Given.swings.swingLows) >= 2
            /\ Len(Given.swings.swingHighs) >= 2)

\* C27: applyPrefilters: when any precondition fails (fewer than 50 bars,
\* missing ATR, fast MA or slow MA, ATR below the price-scaled floor, trend
\* direction choppy) the result is isCandidate = false and no heuristic
\* contributes; otherwise isCandidate is true iff at least one heuristic
\* triggered, and reason is exactly the triggered heuristics' texts joined
\* by ' + ' in the fixed order engulfing, pin bar, pullback, momentum,
\* reversal (empty when none triggered).
Heuristics ==
    <<CheckTrendAlignedEngulfing(Given),
      CheckPinBarAtStructure(Given),
      CheckPullbackIntoTrend(prefilter.in.candles, Given),
      IF prefilter.in.mode = "aggressive" THEN CheckRSIDivergence(Given) ELSE NotFound,
      CheckReversalAtSR(Given)>>
Triggered == SelectSeq(Heuristics, LAMBDA found : found # NotFound)
RECURSIVE Joined(_)
Joined(texts) ==
    IF Len(texts) = 0 THEN <<>>
    ELSE LET front == SubSeq(texts, 1, Len(texts) - 1)
             last == texts[Len(texts)][1]
         IN  IF Len(front) = 0 THEN last ELSE Joined(front) \o <<" + ">> \o last
HeuristicTexts ==
    MomentumTexts \cup
    {"Bullish engulfing in uptrend", "Bearish engulfing in downtrend",
     "Bullish pin bar at support level (", "Bearish pin bar at resistance level (",
     "Pullback to support in uptrend, bouncing",
     "Pullback to resistance in downtrend, rejecting",
     "Reversal setup at strong support (", "Reversal setup at strong resistance ("}

C27_PrefilterResult ==
    Applied =>
        IF PreconditionsHold
        THEN /\ prefilter.out.isCandidate <=> Len(Triggered) > 0
             /\ prefilter.out.reason = Joined(Triggered)
        ELSE /\ ~prefilter.out.isCandidate
             /\ ~Mentions(HeuristicTexts)

\* Three heuristics triggered together, the momentum one among them.
C27_Witness ==
    /\ Applied
    /\ PreconditionsHold
    /\ prefilter.out.isCandidate
    /\ Len(Triggered) = 3
    /\ Mentions(MomentumTexts)
    /\ Len(prefilter.out.reason) > 3

\* C30: for any bar sequence of fewer than 200 bars (as with the default
\* scanner candleCount of 100), the slow moving average is undefined, the
\* trend is unclear, and applyPrefilters returns isCandidate = false in both
\* modes; consequently a scan cycle over such input never calls the decision
\* collaborator and never inserts a signal.
Scanned == prefilter # None /\ prefilter.op = "scan"
Short == Len(prefilter.in.candles) < emaSlow
Computed == prefilter.out.indicators[1]

C30_ShortHistoryNeverCandidate ==
    (Scanned /\ Short) =>
        /\ GetLatestEMA(prefilter.in.candles, emaSlow) = None
        /\ prefilter.out.indicators # None =>
              /\ Computed.ema200 = None
              /\ Computed.trend.direction = "unclear"
              /\ \A j \in DOMAIN Modes :
                    /\ ~ApplyPrefilters(prefilter.in.candles, Computed, Modes[j]).isCandidate
                    /\ ~prefilter.out.results[j].isCandidate
                    /\ prefilter.out.outcomes[j] = "notCandidate"
        /\ prefilter.out.indicators = None =>
              /\ \A j \in DOMAIN Modes :
                    ~ApplyPrefilters(prefilter.in.candles, None, Modes[j]).isCandidate
              /\ prefilter.out.outcomes = <<>>
        /\ prefilter.out.db = <<>>

\* The default number of candles, the fast average defined, a pin bar at a
\* support level and a decision API that would answer with a trade.
C30_Witness ==
    /\ Scanned
    /\ Len(prefilter.in.candles) = candleCount
    /\ candleCount < emaSlow
    /\ prefilter.out.indicators # None
    /\ Computed.ema50 # None
    /\ prefilter.in.others.patterns.bullishPin
    /\ prefilter.in.others.nearSR # None
    /\ prefilter.in.others.nearSR[1].type = "support"
    /\ prefilter.in.response.direction = "long"
    /\ prefilter.in.response.confidence >= confidenceThreshold
    /\ prefilter.out.outcomes = <<"notCandidate", "notCandidate">>

\* With as many bars as the slow average takes, the same input is a
\* candidate and its signal is inserted.
C30_LongHistoryInserts ==
    /\ Scanned
    /\ ~Short
    /\ \E j \in DOMAIN Modes : prefilter.out.outcomes[j] = "inserted"
    /\ Len(prefilter.out.db) > 0

\* C29: for signals that satisfy the proposal ordering invariants, in every
\* reachable state: status is one of pending, triggered, expired, win, loss,
\* timeout (never breakeven); outcome and outcome_detail are set iff status
\* is win, loss or timeout, and then outcome equals status; triggered_at is
\* set iff the signal has ever been triggered; and a take-profit hit always
\* yields win with a risk multiple > 0.
Statuses == {"pending", "triggered", "expired", "win", "loss", "timeout"}
Outcomes == {"win", "loss", "timeout"}
RowConsistent(row) ==
    /\ row.status \in Statuses
    /\ row.outcome # None <=> row.status \in Outcomes
    /\ row.outcome_detail # None <=> row.status \in Outcomes
    /\ row.outcome # None => row.outcome = Some(row.status)
    /\ (row.outcome_detail # None /\ IsTp(row.outcome_detail[1].hit)) =>
          /\ row.status = "win"
          /\ row.outcome_detail[1].rr > 0
          /\ CalculateRMultiple(row, row.outcome_detail[1].hitPrice,
                                row.outcome_detail[1].hit).num > 0

C29_StatusAndOutcomeConsistent ==
    [][/\ \A id \in DOMAIN db : RowConsistent(db[id])
       /\ \A id \in DOMAIN db' :
             /\ RowConsistent(db'[id])
             /\ id \notin DOMAIN db =>
                   db'[id].status = "pending" /\ db'[id].triggered_at = None
             /\ id \in DOMAIN db =>
                   (db'[id].triggered_at # None <=>
                       (db[id].triggered_at # None \/ db'[id].status = "triggered"))]_vars

\* C28: liveness: for every configured positive expirationCandles and
\* timeoutCandles, if new bars keep arriving, fetches succeed and evaluation
\* cycles keep running, every pending signal eventually becomes triggered or
\* expired and every triggered signal eventually becomes win, loss or
\* timeout (the pending check only ever sees the latest 50 bars and the
\* triggered check the latest 150).
Followed == live # None
C28_EverySignalCloses ==
    /\ (Followed /\ live.signal.status = "pending")
          ~> (live.signal.status \in {"triggered", "expired"})
    /\ (Followed /\ live.signal.status = "triggered")
          ~> (live.signal.status \in {"win", "loss", "timeout"})

\* The same for thresholds within the window of their check.
C28_ClosesWithinWindows ==
    /\ (Followed /\ live.signal.status = "pending"
          /\ live.config.expirationCandles <= PendingCount)
          ~> (live.signal.status \in {"triggered", "expired"})
    /\ (Followed /\ live.signal.status = "triggered"
          /\ live.config.timeoutCandles <= TriggeredCount)
          ~> (live.signal.status \in {"win", "loss", "timeout"})

====
